---- MODULE Spec2Model ----
(***************************************************************************)
(* A model of the OSINT investigation engine (src/src/agents/osint_agent.py)*)
(* and of the workflow orchestrator built on it                            *)
(* (src/src/agents/workflow_orchestrator.py).                              *)
(*                                                                         *)
(* The engine runs on one asyncio event loop: code between two awaits is   *)
(* atomic, so every action below is one stretch of code between two        *)
(* suspension points.  The reasoning gateway, the tools and the clock are  *)
(* the environment: each call draws its outcome from a small set.          *)
(***************************************************************************)
EXTENDS Integers, Sequences, FiniteSets, TLC

(***************************************************************************)
(* Bounds of the model.                                                    *)
(***************************************************************************)
MaxIterCfg == 3
MaxPlanActions == 4
MaxNewActions == 1
MaxClock == 1
MaxStarts == 3
MaxTargets == 3
MaxFindings == 3
MaxRuns == 2

(***************************************************************************)
(* Program constants.                                                      *)
(***************************************************************************)
BatchSize == 3

VARIABLES
    \* ---- OSINTAgent fields and the inputs of one investigate() call
    max_iterations,    \* self.max_iterations
    tools,             \* self.tools, in registration order
    auto_report,       \* investigate(auto_report=...)
    objective,         \* self.objective
    investigation_id,  \* self.investigation_id
    current_phase,     \* self.current_phase
    audit,             \* the entries memory.store() was given, oldest first
    \* ---- locals of investigate()
    pc,                \* where the coroutine stands
    plan,
    actions_queue,
    current_batch,     \* what collect_intelligence still has to execute
    results,           \* collect_intelligence's results list
    all_results,
    iteration,
    decision,
    processed_data,
    analysis,
    report,
    evaluation,
    bundle,            \* what investigate() returned
    exception,         \* where the exception that left investigate() was raised
    \* ---- history of the environment
    gwCalls,           \* number of llm.complete() calls made so far
    gwAllRaised,       \* every llm.complete() call so far raised
    calls,             \* the methods investigate() has invoked so far, in order
    \* ---- a direct call of should_continue_investigation(iteration, findings)
    fnPc,
    fnIteration,       \* the iteration argument
    fnResponse,        \* what the gateway answers when it is asked
    fnDecision,        \* the decision returned
    fnAsked,           \* whether llm.complete() was called
    \* ---- WorkflowOrchestrator
    now,               \* datetime.now() to the second
    wfobjs,            \* the workflow dicts, in allocation order
    workflows,         \* self.workflows: id -> workflow dict
    alerts,            \* self.alerts
    running_tasks,     \* self.running_tasks: id -> task
    tasks,             \* the background tasks created so far
    mainCall,          \* the direct execute_workflow call in flight
    execCount,         \* number of investigations started by execute_workflow
    lastReturn,        \* the execute_workflow call that returned last
    lastAck,           \* the acknowledge_alert call that returned last
    \* ---- run_campaign
    campPc,            \* position in run_campaign
    campTargets,       \* targets
    campParallel,      \* parallel
    campTasks,         \* per target: the investigation is pending, returned or raised
    campOrder,         \* the targets in the order their investigations completed
    campResults,       \* campaign_results['results']
    campReturn,        \* what run_campaign gave its caller
    \* ---- direct calls of _detect_changes and of _check_alert_conditions
    detectCall,        \* the arguments and the result of a _detect_changes call
    alertCall,         \* the arguments and the effect of a _check_alert_conditions call
    processCall,       \* the arguments and the results of two process_raw_data calls
    runs               \* the investigate() coroutines that share the one agent

engineVars == <<max_iterations, tools, auto_report, objective, investigation_id,
                current_phase, audit, pc, plan, actions_queue, current_batch,
                results, all_results, iteration, decision, processed_data,
                analysis, report, evaluation, bundle, exception, gwCalls, gwAllRaised,
                calls>>

cfgVars == <<max_iterations, tools, auto_report>>

fnVars == <<fnPc, fnIteration, fnResponse, fnDecision, fnAsked>>

orchVars == <<now, wfobjs, workflows, alerts, running_tasks, tasks, mainCall, execCount,
              lastReturn, lastAck>>

campVars == <<campPc, campTargets, campParallel, campTasks, campOrder, campResults,
              campReturn>>

pureVars == <<detectCall, alertCall, processCall, runs>>

restVars == <<fnVars, orchVars, campVars, pureVars>>

nonOrchVars == <<engineVars, fnVars, campVars, pureVars>>

vars == <<engineVars, restVars>>

(***************************************************************************)
(* Values.                                                                 *)
(***************************************************************************)
None == "None"

\* The registered tools: "search" returns, "flaky" raises when called.
\* "ghost" is a name no registry holds.
ToolRegistries == {<<>>, <<"flaky", "search">>}
ToolNames == {"search", "flaky", "ghost"}

Registered(name) == \E i \in 1..Len(tools) : tools[i] = name

ToolRaises(name) == name = "flaky"

\* One element of an action list as the gateway's JSON gives it: a dict
\* naming a tool, or any other JSON value (a string, a number, a list).
Action(t) == [isDict |-> TRUE, tool |-> t]
NotADict == [isDict |-> FALSE, tool |-> None]
ActionItems == {Action(t) : t \in ToolNames} \cup {NotADict}

RECURSIVE SeqsUpTo(_, _)
SeqsUpTo(S, n) ==
    IF n = 0 THEN {<<>>}
    ELSE LET shorter == SeqsUpTo(S, n - 1)
         IN shorter \cup {Append(s, x) : s \in {t \in shorter : Len(t) = n - 1}, x \in S}

\* The value of a dict's 'actions' entry: a list, or a truthy value that is
\* no list (a non-empty string, a number, a dict).  A missing, null or
\* otherwise falsy entry behaves as the empty list in the code's tests.
ListValue(s) == [isList |-> TRUE, items |-> s]
NonListValue == [isList |-> FALSE, items |-> <<>>]
Truthy(v) == ~v.isList \/ v.items # <<>>

\* What llm.complete() followed by json.loads() can give.
Raise == [kind |-> "raise"]
NotJson == [kind |-> "notjson"]
NonObject == [kind |-> "nonobject"]
Object == [kind |-> "object"]
JsonResponses == {Raise, NotJson, NonObject, Object}

\* The action lists of a plan: up to MaxPlanActions items, calls of the tool
\* that returns with at most one item of another kind among them.
OddCount(s) == Cardinality({i \in 1..Len(s) : s[i] # Action("search")})
PlanLists == {s \in SeqsUpTo(ActionItems, MaxPlanActions) : OddCount(s) <= 1}

\* The follow-up lists of adapt_strategy: up to MaxNewActions calls of the
\* tool that returns, or a single item of another kind.
Copies(x, n) == [i \in 1..n |-> x]
AdaptLists == {Copies(Action("search"), n) : n \in 0..MaxNewActions}
              \cup {<<x>> : x \in ActionItems}

PlanResponses ==
    {[kind |-> k, actions |-> ListValue(<<>>)] : k \in {"raise", "notjson", "nonobject"}}
    \cup {[kind |-> "object", actions |-> ListValue(s)] : s \in PlanLists}
    \cup {[kind |-> "object", actions |-> NonListValue]}

DecisionResponses ==
    {[kind |-> k, continue |-> "absent", recommendation |-> "absent"] :
        k \in {"raise", "notjson", "nonobject"}}
    \cup [kind : {"object"}, continue : {"true", "false", "absent"},
          recommendation : {"continue", "conclude", "pivot", "absent"}]

AdaptResponses ==
    {[kind |-> k, items |-> <<>>] : k \in {"raise", "notjson", "nonobject"}}
    \cup {[kind |-> "list", items |-> s] : s \in AdaptLists}

LogEntry(id, phase, action, tool) ==
    [investigation_id |-> id, phase |-> phase, action |-> action, tool |-> tool]

(***************************************************************************)
(* Phase 1: planning.                                                      *)
(***************************************************************************)
_create_fallback_plan ==
    [kind |-> "fallback",
     actions |-> ListValue(<<Action(IF tools # <<>> THEN tools[1] ELSE "none")>>)]

\* json.loads of a value that is no dict makes plan['investigation_id'] = ...
\* raise TypeError, which the except clause turns into the fallback plan.
plan_investigation(r) ==
    IF r.kind = "object" THEN [kind |-> "llm", actions |-> r.actions]
    ELSE _create_fallback_plan

(***************************************************************************)
(* Phase 2: collection.                                                    *)
(***************************************************************************)
\* execute_action without the log_action call of its unknown-tool branch.
execute_action_SilentMiss(action) ==
    IF ~Registered(action.tool)
    THEN [result |-> [success |-> FALSE, tool |-> action.tool, error |-> "not_available"],
          logs |-> <<>>]
    ELSE IF ToolRaises(action.tool)
    THEN [result |-> [success |-> FALSE, tool |-> action.tool, error |-> "tool_error"],
          logs |-> <<"collection_error">>]
    ELSE [result |-> [success |-> TRUE, tool |-> action.tool, error |-> None],
          logs |-> <<"collection">>]

\* The result returned and the actions handed to log_action, in order.
execute_action(action) ==
    IF ~Registered(action.tool)
    THEN [result |-> [success |-> FALSE, tool |-> action.tool, error |-> "not_available"],
          logs |-> <<"collection_error">>]
    ELSE IF ToolRaises(action.tool)
    THEN [result |-> [success |-> FALSE, tool |-> action.tool, error |-> "tool_error"],
          logs |-> <<"collection_error">>]
    ELSE [result |-> [success |-> TRUE, tool |-> action.tool, error |-> None],
          logs |-> <<"collection">>]

(***************************************************************************)
(* Adaptive decision logic.                                                *)
(***************************************************************************)
NoDecision == [kind |-> "none", continue |-> "absent", recommendation |-> "absent",
               reason |-> "none"]

\* should_continue_investigation with the fallback written as
\* iteration < max_iterations - 1.
should_continue_investigation_LateStop(it, maxit, r) ==
    IF it >= maxit
    THEN [decision |-> [kind |-> "object", continue |-> "false",
                        recommendation |-> "Conclude investigation",
                        reason |-> "Maximum iterations reached"],
          asked |-> FALSE]
    ELSE IF r.kind \in {"raise", "notjson"}
    THEN [decision |-> [kind |-> "object",
                        continue |-> IF it < maxit - 1 THEN "true" ELSE "false",
                        recommendation |-> "continue",
                        reason |-> "Default behavior due to decision error"],
          asked |-> TRUE]
    ELSE [decision |-> [kind |-> r.kind, continue |-> r.continue,
                        recommendation |-> r.recommendation, reason |-> "gateway"],
          asked |-> TRUE]

\* The decision returned, and whether the gateway was asked.
should_continue_investigation(it, maxit, r) ==
    IF it >= maxit
    THEN [decision |-> [kind |-> "object", continue |-> "false",
                        recommendation |-> "Conclude investigation",
                        reason |-> "Maximum iterations reached"],
          asked |-> FALSE]
    ELSE IF r.kind \in {"raise", "notjson"}
    THEN [decision |-> [kind |-> "object",
                        continue |-> IF it < maxit - 2 THEN "true" ELSE "false",
                        recommendation |-> "continue",
                        reason |-> "Default behavior due to decision error"],
          asked |-> TRUE]
    ELSE [decision |-> [kind |-> r.kind, continue |-> r.continue,
                        recommendation |-> r.recommendation, reason |-> "gateway"],
          asked |-> TRUE]

\* The list adapt_strategy returns, and whether "strategy_adapted" is logged.
adapt_strategy(r) ==
    IF r.kind \in {"raise", "notjson"} THEN [new_actions |-> <<>>, logged |-> FALSE]
    ELSE IF r.kind = "list" THEN [new_actions |-> r.items, logged |-> TRUE]
    ELSE [new_actions |-> <<>>, logged |-> TRUE]

(***************************************************************************)
(* Phases 3 to 6.                                                          *)
(***************************************************************************)
NoValue == [kind |-> "none"]

\* Lines 317-337; t is what datetime.now() reads at line 321.
process_raw_data(r, raw, t) ==
    IF r.kind = "object"
    THEN [kind |-> "llm", sources_processed |-> Len(raw), raw_count |-> 0,
          data_quality_notes |-> <<>>, processing_timestamp |-> t]
    ELSE [kind |-> "fallback", sources_processed |-> 0, raw_count |-> Len(raw),
          data_quality_notes |-> <<"Processing failed, raw data preserved">>]

\* The key findings of the fallback analysis: one plain string, no dict.
FallbackFindings == <<[isDict |-> FALSE, confidence |-> None]>>

_create_fallback_analysis ==
    [kind |-> "fallback", key_findings |-> FallbackFindings,
     confidence_assessment |-> "low"]

\* analyze_intelligence whose except clause returns None.
analyze_intelligence_NoFallback(r) ==
    IF r.kind = "object"
    THEN [kind |-> "llm", key_findings |-> <<>>, confidence_assessment |-> "gateway"]
    ELSE [kind |-> "none", key_findings |-> <<>>, confidence_assessment |-> None]

analyze_intelligence(r) ==
    IF r.kind = "object"
    THEN [kind |-> "llm", key_findings |-> <<>>, confidence_assessment |-> "gateway"]
    ELSE _create_fallback_analysis

generate_report(r) ==
    IF r.kind = "raise" THEN [kind |-> "fallback"] ELSE [kind |-> "llm"]

evaluate_investigation(r) ==
    IF r.kind = "object"
    THEN [kind |-> "llm", objective_achievement |-> "gateway", notes |-> None]
    ELSE [kind |-> "fallback", objective_achievement |-> "0", notes |-> "Evaluation failed"]

(***************************************************************************)
(* investigate(): one action per stretch of code between two awaits.       *)
(***************************************************************************)
\* One invocation: the method, the action execute_action was given and the
\* actions collect_intelligence was given or adapt_strategy returned.
Call(op, action, actions) == [op |-> op, action |-> action, actions |-> actions]

NoAction == [isDict |-> FALSE, tool |-> "no action"]

Invoked(op) == calls' = Append(calls, Call(op, NoAction, <<>>))

Asked(r) ==
    /\ gwCalls' = gwCalls + 1
    /\ gwAllRaised' = (gwAllRaised /\ r.kind = "raise")

\* investigate lines 700-709 with plan_investigation: the plan is made and
\* the queue, the results and the iteration counter are set up.
Investigate_Plan ==
    /\ pc = "start"
    /\ \E r \in PlanResponses :
        /\ plan' = plan_investigation(r)
        /\ actions_queue' = plan_investigation(r).actions
        /\ investigation_id' = "inv1"
        /\ audit' = IF r.kind = "object"
                    THEN Append(audit, LogEntry("inv1", "planning", "investigation_planned", None))
                    ELSE audit
        /\ Asked(r)
    /\ objective' = "objective"
    /\ current_phase' = "planning"
    /\ all_results' = <<>>
    /\ iteration' = 0
    /\ pc' = "loop"
    /\ Invoked("plan_investigation")
    /\ UNCHANGED <<cfgVars, exception, current_batch, results, decision,
                   processed_data, analysis, report, evaluation, bundle, restVars>>

\* A batch size that ignores the cap.
Min_Uncapped(a, b) == b

Min(a, b) == IF a < b THEN a ELSE b

\* The while test of line 711 and, when it passes, lines 715-717 and the
\* entry of collect_intelligence.  A queue that is no list makes len() or
\* the slice or the first execute_action raise.
Investigate_LoopTest ==
    /\ pc = "loop"
    /\ IF ~(Truthy(actions_queue) /\ iteration < max_iterations)
       THEN /\ pc' = "process"
            /\ UNCHANGED <<actions_queue, current_batch, results, current_phase, exception,
                           calls>>
       ELSE IF ~actions_queue.isList
       THEN /\ pc' = "raised"
            /\ exception' = "actions_queue"
            /\ UNCHANGED <<actions_queue, current_batch, results, current_phase, calls>>
       ELSE LET batch_size == Min(BatchSize, Len(actions_queue.items))
            IN /\ current_batch' = SubSeq(actions_queue.items, 1, batch_size)
               /\ actions_queue' = ListValue(SubSeq(actions_queue.items, batch_size + 1,
                                                    Len(actions_queue.items)))
               /\ results' = <<>>
               /\ current_phase' = "collection"
               /\ pc' = "collect"
               /\ calls' = Append(calls, Call("collect_intelligence", NoAction,
                                              SubSeq(actions_queue.items, 1, batch_size)))
               /\ UNCHANGED exception
    /\ UNCHANGED <<cfgVars, objective, investigation_id, audit,
                   plan, all_results, iteration, decision, processed_data, analysis,
                   report, evaluation, bundle, gwCalls, gwAllRaised, restVars>>

\* One pass of collect_intelligence's for loop: execute_action, append,
\* sleep.  action.get() on a value that is no dict raises AttributeError
\* before the try block.
Collect_ExecuteAction ==
    /\ pc = "collect"
    /\ current_batch # <<>>
    /\ LET action == Head(current_batch)
           out == execute_action(action)
       IN IF ~action.isDict
          THEN /\ pc' = "raised"
               /\ exception' = "execute_action"
               /\ UNCHANGED <<current_batch, results, audit>>
          ELSE /\ results' = Append(results, out.result)
               /\ audit' = audit \o [i \in 1..Len(out.logs) |->
                                        LogEntry(investigation_id, "collection",
                                                 out.logs[i], action.tool)]
               /\ current_batch' = Tail(current_batch)
               /\ pc' = "collect"
               /\ UNCHANGED exception
    /\ current_phase' = "collection"
    /\ calls' = Append(calls, Call("execute_action", Head(current_batch), <<>>))
    /\ UNCHANGED <<cfgVars, objective, investigation_id,
                   plan, actions_queue, all_results, iteration, decision, processed_data,
                   analysis, report, evaluation, bundle, gwCalls, gwAllRaised, restVars>>

\* collect_intelligence returns and line 720 extends all_results.
Collect_Return ==
    /\ pc = "collect"
    /\ current_batch = <<>>
    /\ all_results' = all_results \o results
    /\ results' = <<>>
    /\ pc' = "decide"
    /\ UNCHANGED <<cfgVars, exception, objective, investigation_id,
                   current_phase, audit, plan, actions_queue, current_batch, iteration,
                   decision, processed_data, analysis, report, evaluation, bundle,
                   gwCalls, gwAllRaised, calls, restVars>>

\* Line 723.
Investigate_ShouldContinue ==
    /\ pc = "decide"
    /\ \E r \in DecisionResponses :
        LET out == should_continue_investigation(iteration, max_iterations, r)
        IN /\ decision' = out.decision
           /\ IF out.asked THEN Asked(r) ELSE UNCHANGED <<gwCalls, gwAllRaised>>
    /\ pc' = "decided"
    /\ Invoked("should_continue_investigation")
    /\ UNCHANGED <<cfgVars, exception, objective, investigation_id,
                   current_phase, audit, plan, actions_queue, current_batch, results,
                   all_results, iteration, processed_data, analysis, report, evaluation,
                   bundle, restVars>>

\* Lines 725-730 without the break of line 727.
Investigate_Branch_NoBreak ==
    /\ pc = "decided"
    /\ pc' = IF decision.kind # "object" THEN "raised"
             ELSE IF actions_queue.items = <<>> /\ decision.recommendation = "pivot" THEN "adapt"
             ELSE "increment"
    /\ exception' = IF decision.kind # "object" THEN "decision" ELSE exception
    /\ decision' = NoDecision
    /\ UNCHANGED <<cfgVars, objective, investigation_id,
                   current_phase, audit, plan, actions_queue, current_batch, results,
                   all_results, iteration, processed_data, analysis, report, evaluation,
                   bundle, gwCalls, gwAllRaised, calls, restVars>>

\* Lines 725-730: decision.get() raises AttributeError when the decision is
\* no dict; a falsy 'continue' breaks out of the loop; an empty queue with
\* recommendation 'pivot' asks for new actions.
Investigate_Branch ==
    /\ pc = "decided"
    /\ pc' = IF decision.kind # "object" THEN "raised"
             ELSE IF decision.continue = "false" THEN "process"
             ELSE IF actions_queue.items = <<>> /\ decision.recommendation = "pivot" THEN "adapt"
             ELSE "increment"
    /\ exception' = IF decision.kind # "object" THEN "decision" ELSE exception
    /\ decision' = NoDecision
    /\ UNCHANGED <<cfgVars, objective, investigation_id,
                   current_phase, audit, plan, actions_queue, current_batch, results,
                   all_results, iteration, processed_data, analysis, report, evaluation,
                   bundle, gwCalls, gwAllRaised, calls, restVars>>

\* Lines 732-737.
Investigate_Adapt ==
    /\ pc = "adapt"
    /\ \E r \in AdaptResponses :
        LET out == adapt_strategy(r)
        IN /\ actions_queue' = ListValue(actions_queue.items \o out.new_actions)
           /\ audit' = IF out.logged
                       THEN Append(audit, LogEntry(investigation_id, current_phase,
                                                   "strategy_adapted", None))
                       ELSE audit
           /\ Asked(r)
           /\ calls' = Append(calls, Call("adapt_strategy", NoAction, out.new_actions))
    /\ pc' = "increment"
    /\ UNCHANGED <<cfgVars, exception, objective, investigation_id,
                   current_phase, plan, current_batch, results, all_results, iteration,
                   decision, processed_data, analysis, report, evaluation, bundle,
                   restVars>>

\* The increment of line 739 counting results instead of passes.
Investigate_Increment_ByResults ==
    /\ pc = "increment"
    /\ iteration' = Len(all_results)
    /\ pc' = "loop"
    /\ UNCHANGED <<cfgVars, exception, objective, investigation_id,
                   current_phase, audit, plan, actions_queue, current_batch, results,
                   all_results, decision, processed_data, analysis, report, evaluation,
                   bundle, gwCalls, gwAllRaised, calls, restVars>>

\* Line 739 skipped in a pass that adapted the strategy.
Investigate_Increment_NotAfterAdapt ==
    /\ pc = "increment"
    /\ iteration' = IF calls[Len(calls)].op = "adapt_strategy"
                     THEN iteration ELSE iteration + 1
    /\ pc' = "loop"
    /\ UNCHANGED <<cfgVars, exception, objective, investigation_id,
                   current_phase, audit, plan, actions_queue, current_batch, results,
                   all_results, decision, processed_data, analysis, report, evaluation,
                   bundle, gwCalls, gwAllRaised, calls, restVars>>

\* Line 739.
Investigate_Increment ==
    /\ pc = "increment"
    /\ iteration' = iteration + 1
    /\ pc' = "loop"
    /\ UNCHANGED <<cfgVars, exception, objective, investigation_id,
                   current_phase, audit, plan, actions_queue, current_batch, results,
                   all_results, decision, processed_data, analysis, report, evaluation,
                   bundle, gwCalls, gwAllRaised, calls, restVars>>

\* Line 743.
Investigate_Process ==
    /\ pc = "process"
    /\ \E r \in JsonResponses :
        /\ processed_data' = process_raw_data(r, all_results, now)
        /\ audit' = IF r.kind = "object"
                    THEN Append(audit, LogEntry(investigation_id, "processing",
                                                "data_processed", None))
                    ELSE audit
        /\ Asked(r)
    /\ current_phase' = "processing"
    /\ pc' = "analyze"
    /\ Invoked("process_raw_data")
    /\ UNCHANGED <<cfgVars, exception, objective, investigation_id,
                   plan, actions_queue, current_batch, results, all_results, iteration,
                   decision, analysis, report, evaluation, bundle, restVars>>

\* Lines 747-751 without the dissemination phase.
Investigate_Analyze_NoReport ==
    /\ pc = "analyze"
    /\ \E r \in JsonResponses :
        /\ analysis' = analyze_intelligence(r)
        /\ audit' = IF r.kind = "object"
                    THEN Append(audit, LogEntry(investigation_id, "analysis",
                                                "intelligence_analyzed", None))
                    ELSE audit
        /\ Asked(r)
    /\ current_phase' = "analysis"
    /\ pc' = "evaluate"
    /\ Invoked("analyze_intelligence")
    /\ UNCHANGED <<cfgVars, exception, objective, investigation_id,
                   plan, actions_queue, current_batch, results, all_results, iteration,
                   decision, processed_data, report, evaluation, bundle, restVars>>

\* Lines 747-751.
Investigate_Analyze ==
    /\ pc = "analyze"
    /\ \E r \in JsonResponses :
        /\ analysis' = analyze_intelligence(r)
        /\ audit' = IF r.kind = "object"
                    THEN Append(audit, LogEntry(investigation_id, "analysis",
                                                "intelligence_analyzed", None))
                    ELSE audit
        /\ Asked(r)
    /\ current_phase' = "analysis"
    /\ pc' = IF auto_report THEN "report" ELSE "evaluate"
    /\ Invoked("analyze_intelligence")
    /\ UNCHANGED <<cfgVars, exception, objective, investigation_id,
                   plan, actions_queue, current_batch, results, all_results, iteration,
                   decision, processed_data, report, evaluation, bundle, restVars>>

\* Line 753: the default format is markdown, so the gateway is asked.
Investigate_Report ==
    /\ pc = "report"
    /\ \E r \in {Raise, NotJson} :
        /\ report' = generate_report(r)
        /\ Asked(r)
    /\ audit' = Append(audit, LogEntry(investigation_id, "dissemination",
                                       "report_generated", None))
    /\ current_phase' = "dissemination"
    /\ pc' = "evaluate"
    /\ Invoked("generate_report")
    /\ UNCHANGED <<cfgVars, exception, objective, investigation_id,
                   plan, actions_queue, current_batch, results, all_results, iteration,
                   decision, processed_data, analysis, evaluation, bundle, restVars>>

\* Lines 760-779.
complete_results(eval) ==
    [investigation_id |-> investigation_id,
     objective |-> objective,
     plan |-> plan,
     collection_results |-> all_results,
     processed_data |-> processed_data,
     analysis |-> analysis,
     report |-> report,
     evaluation |-> eval,
     metadata |-> [iterations |-> iteration,
                   tools_used |-> Cardinality({all_results[i].tool : i \in 1..Len(all_results)})]]

\* Lines 757-787: evaluate_investigation, then the bundle is compiled and returned.
Investigate_Evaluate ==
    /\ pc = "evaluate"
    /\ \E r \in JsonResponses :
        /\ evaluation' = evaluate_investigation(r)
        /\ audit' = IF r.kind = "object"
                    THEN Append(audit, LogEntry(investigation_id, "feedback",
                                                "investigation_evaluated", None))
                    ELSE audit
        /\ Asked(r)
        /\ bundle' = complete_results(evaluate_investigation(r))
    /\ current_phase' = "feedback"
    /\ pc' = "done"
    /\ Invoked("evaluate_investigation")
    /\ UNCHANGED <<cfgVars, exception, objective, investigation_id,
                   plan, actions_queue, current_batch, results, all_results, iteration,
                   decision, processed_data, analysis, report, restVars>>

NoBundle == [kind |-> "none"]

InitEngine ==
    /\ max_iterations \in 0..MaxIterCfg
    /\ tools \in ToolRegistries
    /\ auto_report \in BOOLEAN
    /\ objective = None
    /\ investigation_id = None
    /\ current_phase = None
    /\ audit = <<>>
    /\ pc = "start"
    /\ plan = [kind |-> "none", actions |-> ListValue(<<>>)]
    /\ actions_queue = ListValue(<<>>)
    /\ current_batch = <<>>
    /\ results = <<>>
    /\ all_results = <<>>
    /\ iteration = 0
    /\ decision = NoDecision
    /\ processed_data = NoValue
    /\ analysis = NoValue
    /\ report = NoValue
    /\ evaluation = NoValue
    /\ bundle = NoBundle
    /\ exception = None
    /\ gwCalls = 0
    /\ gwAllRaised = TRUE
    /\ calls = <<>>

\* No direct call of should_continue_investigation is made.
FnIdle ==
    /\ fnPc = "idle"
    /\ fnIteration = 0
    /\ fnResponse = [kind |-> "raise", continue |-> "absent", recommendation |-> "absent"]
    /\ fnDecision = NoDecision
    /\ fnAsked = FALSE


(***************************************************************************)
(* The workflow orchestrator.  Workflows are dicts on the heap: wfobjs     *)
(* holds them in allocation order and the registry self.workflows maps an  *)
(* id to one of them.  A coroutine or a background task that has read       *)
(* self.workflows[id] keeps that dict, whatever the registry holds later.  *)
(***************************************************************************)
NoId == <<0 - 1, "None">>

\* workflow_id = f"wf_{now to the second}_{name}"
WorkflowId(t, name) == <<t, name>>

Cond(type, threshold, severity) ==
    [type |-> type, threshold |-> threshold, severity |-> severity]

\* The arguments of the calls of create_workflow, in the order of the calls:
\* a monitored workflow and a scheduled one of the same name.
CreateCalls ==
    <<[name |-> "a", type |-> "continuous", interval |-> None,
       alert_conditions |-> <<Cond("finding_count", 3, "medium"),
                              Cond("high_confidence_finding", 0, "high")>>],
      [name |-> "a", type |-> "scheduled", interval |-> "hourly",
       alert_conditions |-> <<Cond("risk_indicator", 0, "high"),
                              Cond("keyword_match", 0, "medium")>>]>>

\* One entry of analysis['key_findings']: a dict with a confidence, or a
\* plain string as in the engine's fallback analysis.
Finding(c) == [isDict |-> TRUE, confidence |-> c]

\* What agent.investigate() gives execute_workflow: it raises, or returns a
\* bundle.  Of a bundle the orchestrator reads the investigation id, the
\* key findings, the entity names, the risk indicators and the report.
\* The analysis is a dict, the fallback one or the one the gateway wrote,
\* whose key_findings need not be a list.
RaiseOutcome ==
    [kind |-> "raise", investigation_id |-> 0, findings_sized |-> TRUE,
     key_findings |-> <<>>, entities |-> {}, risk_indicators |-> 0,
     report_has_keyword |-> FALSE]

ResultShapes ==
    {[findings_sized |-> TRUE, key_findings |-> FallbackFindings, entities |-> {},
      risk_indicators |-> 0, report_has_keyword |-> FALSE],
     [findings_sized |-> TRUE,
      key_findings |-> <<Finding("high"), Finding("medium"), Finding("low")>>,
      entities |-> {"x"}, risk_indicators |-> 1, report_has_keyword |-> TRUE],
     [findings_sized |-> FALSE, key_findings |-> <<>>, entities |-> {},
      risk_indicators |-> 0, report_has_keyword |-> FALSE]}

Result(id, shape) ==
    [kind |-> "result", investigation_id |-> id, findings_sized |-> shape.findings_sized,
     key_findings |-> shape.key_findings,
     entities |-> shape.entities, risk_indicators |-> shape.risk_indicators,
     report_has_keyword |-> shape.report_has_keyword]

InvestigateOutcomes(id) == {RaiseOutcome} \cup {Result(id, s) : s \in ResultShapes}

\* {"error": str(e)}: every other key is missing and read with its default.
ErrorMap ==
    [kind |-> "error", investigation_id |-> 0, findings_sized |-> TRUE, key_findings |-> <<>>,
     entities |-> {}, risk_indicators |-> 0, report_has_keyword |-> FALSE]

NoResult ==
    [kind |-> "none", investigation_id |-> 0, findings_sized |-> TRUE, key_findings |-> <<>>,
     entities |-> {}, risk_indicators |-> 0, report_has_keyword |-> FALSE]

Execution(status, id) == [status |-> status, investigation_id |-> id]

NoAlertData ==
    [finding_count |-> 0, threshold |-> 0, high_confidence_findings |-> <<>>,
     matched_keywords |-> 0, risk_indicators |-> 0, changes |-> <<>>]

\* Lines 234-246.
_create_alert(wf, condition, alert_data, result, t) ==
    [id |-> t,
     workflow_id |-> wf.id,
     workflow_name |-> wf.name,
     condition |-> condition,
     alert_data |-> alert_data,
     investigation_id |-> result.investigation_id,
     severity |-> condition.severity,
     status |-> "active"]

IsHighConfidence(f) == f.confidence = "very_high" \/ f.confidence = "high"

\* A variant whose finding_count condition needs more findings than the
\* threshold.
EvaluateCondition_AboveThreshold(condition, result) ==
    LET findings == result.key_findings
    IN IF condition.type = "finding_count"
       THEN [raised |-> FALSE,
             triggered |-> Len(findings) > condition.threshold,
             alert_data |-> [NoAlertData EXCEPT !.finding_count = Len(findings),
                                                !.threshold = condition.threshold]]
       ELSE IF condition.type = "high_confidence_finding"
       THEN [raised |-> \E i \in 1..Len(findings) : ~findings[i].isDict,
             triggered |-> \E i \in 1..Len(findings) : IsHighConfidence(findings[i]),
             alert_data |-> [NoAlertData EXCEPT !.high_confidence_findings =
                                                   SelectSeq(findings, IsHighConfidence)]]
       ELSE IF condition.type = "keyword_match"
       THEN [raised |-> FALSE,
             triggered |-> result.report_has_keyword,
             alert_data |-> [NoAlertData EXCEPT !.matched_keywords = 1]]
       ELSE IF condition.type = "risk_indicator"
       THEN [raised |-> FALSE,
             triggered |-> result.risk_indicators > 0,
             alert_data |-> [NoAlertData EXCEPT !.risk_indicators = result.risk_indicators]]
       ELSE [raised |-> FALSE, triggered |-> FALSE, alert_data |-> NoAlertData]

\* Lines 194-219 for one condition: whether it raises, whether it is
\* triggered, and the alert data.  f.get('confidence') raises
\* AttributeError on a finding that is no dict.
EvaluateCondition(condition, result) ==
    LET findings == result.key_findings
    IN IF condition.type = "finding_count"
       THEN [raised |-> FALSE,
             triggered |-> Len(findings) >= condition.threshold,
             alert_data |-> [NoAlertData EXCEPT !.finding_count = Len(findings),
                                                !.threshold = condition.threshold]]
       ELSE IF condition.type = "high_confidence_finding"
       THEN [raised |-> \E i \in 1..Len(findings) : ~findings[i].isDict,
             triggered |-> \E i \in 1..Len(findings) : IsHighConfidence(findings[i]),
             alert_data |-> [NoAlertData EXCEPT !.high_confidence_findings =
                                                   SelectSeq(findings, IsHighConfidence)]]
       ELSE IF condition.type = "keyword_match"
       THEN [raised |-> FALSE,
             triggered |-> result.report_has_keyword,
             alert_data |-> [NoAlertData EXCEPT !.matched_keywords = 1]]
       ELSE IF condition.type = "risk_indicator"
       THEN [raised |-> FALSE,
             triggered |-> result.risk_indicators > 0,
             alert_data |-> [NoAlertData EXCEPT !.risk_indicators = result.risk_indicators]]
       ELSE [raised |-> FALSE, triggered |-> FALSE, alert_data |-> NoAlertData]

\* Lines 185-222 from condition i on: the alert list afterwards, and whether
\* the loop was left by an exception.
RECURSIVE _check_alert_conditions(_, _, _, _, _)
_check_alert_conditions(wf, result, i, als, t) ==
    IF i > Len(wf.alert_conditions) THEN [alerts |-> als, raised |-> FALSE]
    ELSE LET condition == wf.alert_conditions[i]
             ev == EvaluateCondition(condition, result)
         IN IF ev.raised THEN [alerts |-> als, raised |-> TRUE]
            ELSE _check_alert_conditions(
                     wf, result, i + 1,
                     IF ev.triggered
                     THEN Append(als, _create_alert(wf, condition, ev.alert_data, result, t))
                     ELSE als,
                     t)

\* The except block of execute_workflow, lines 162-175.
execute_workflow_except(wf, als, written) ==
    [wf |-> [wf EXCEPT !.executions = Append(@, Execution("failed", 0)),
                       !.status = "failed"],
     alerts |-> als,
     ret |-> ErrorMap,
     written |-> Append(written, "failed")]

\* Lines 138-160, for a bundle whose summary can be made: the Execution
\* and the result are appended, the status is set, and then the alert
\* conditions are checked inside the same try block.
execute_workflow_try(wf, als, outcome, t) ==
    LET done == [wf EXCEPT
                    !.executions = Append(@, Execution("completed",
                                                       outcome.investigation_id)),
                    !.results = Append(@, outcome),
                    !.status = "completed"]
        chk == _check_alert_conditions(done, outcome, 1, als, t)
    IN IF chk.raised
       THEN execute_workflow_except(done, chk.alerts, <<"completed">>)
       ELSE [wf |-> done,
             alerts |-> chk.alerts,
             ret |-> outcome,
             written |-> <<"completed">>]

\* A variant whose except block sets the status and appends no Execution.
execute_workflow_finish_NoRecord(wf, als, outcome, t) ==
    IF outcome.kind = "raise" \/ ~outcome.findings_sized
    THEN [wf |-> [wf EXCEPT !.status = "failed"],
          alerts |-> als,
          ret |-> ErrorMap,
          written |-> <<"failed">>]
    ELSE execute_workflow_try(wf, als, outcome, t)

\* A variant with no except block: the exception of agent.investigate
\* reaches the caller.
execute_workflow_finish_Propagates(wf, als, outcome, t) ==
    IF outcome.kind = "raise" \/ ~outcome.findings_sized
    THEN [wf |-> wf,
          alerts |-> als,
          ret |-> [ErrorMap EXCEPT !.kind = "raised"],
          written |-> <<>>]
    ELSE execute_workflow_try(wf, als, outcome, t)

\* execute_workflow from the return (or the exception) of agent.investigate
\* to its own return, lines 138-175: the workflow dict and the alert list
\* afterwards, the value returned, and the statuses this stretch set, in
\* order.  len() of the key findings in the summary (line 144) raises
\* TypeError when they have no length.
execute_workflow_finish(wf, als, outcome, t) ==
    IF outcome.kind = "raise" \/ ~outcome.findings_sized
    THEN execute_workflow_except(wf, als, <<>>)
    ELSE execute_workflow_try(wf, als, outcome, t)

\* A variant that reports the findings whenever their number differs.
_detect_changes_AnyDifference(previous, current) ==
    LET new_entities == current.entities \ previous.entities
        removed_entities == previous.entities \ current.entities
        prev_findings_count == Len(previous.key_findings)
        curr_findings_count == Len(current.key_findings)
    IN (IF new_entities # {}
        THEN <<[type |-> "new_entities", count |-> Cardinality(new_entities),
                entities |-> new_entities, previous_count |-> 0, current_count |-> 0,
                delta |-> 0]>>
        ELSE <<>>)
       \o (IF removed_entities # {}
           THEN <<[type |-> "removed_entities", count |-> Cardinality(removed_entities),
                   entities |-> removed_entities, previous_count |-> 0,
                   current_count |-> 0, delta |-> 0]>>
           ELSE <<>>)
       \o (IF curr_findings_count # prev_findings_count
           THEN <<[type |-> "new_findings", count |-> 0, entities |-> {},
                   previous_count |-> prev_findings_count,
                   current_count |-> curr_findings_count,
                   delta |-> curr_findings_count - prev_findings_count]>>
           ELSE <<>>)

\* Lines 335-381.
_detect_changes(previous, current) ==
    LET new_entities == current.entities \ previous.entities
        removed_entities == previous.entities \ current.entities
        prev_findings_count == Len(previous.key_findings)
        curr_findings_count == Len(current.key_findings)
        Change(type, count, members, delta) ==
            [type |-> type, count |-> count, entities |-> members,
             previous_count |-> IF type = "new_findings" THEN prev_findings_count ELSE 0,
             current_count |-> IF type = "new_findings" THEN curr_findings_count ELSE 0,
             delta |-> delta]
    IN (IF new_entities # {}
        THEN <<Change("new_entities", Cardinality(new_entities), new_entities, 0)>>
        ELSE <<>>)
       \o (IF removed_entities # {}
           THEN <<Change("removed_entities", Cardinality(removed_entities),
                         removed_entities, 0)>>
           ELSE <<>>)
       \o (IF curr_findings_count > prev_findings_count
           THEN <<Change("new_findings", 0, {}, curr_findings_count - prev_findings_count)>>
           ELSE <<>>)

\* An execute_workflow call suspended in agent.investigate: the id it was
\* given, the workflow dict it read, the statuses it has written, and the id
\* of the investigation it runs.
NoFrame == [active |-> FALSE, wf_id |-> NoId, ref |-> 0, written |-> <<>>, inv |-> 0]

Frame(id, ref, inv) ==
    [active |-> TRUE, wf_id |-> id, ref |-> ref, written |-> <<"running">>, inv |-> inv]

NoReturn ==
    [caller |-> None, wf_id |-> NoId, known |-> FALSE, investigate |-> "none",
     ret |-> NoResult, written |-> <<>>, recorded |-> <<>>,
     results_appended |-> 0, alerts_created |-> 0]

Statuses(executions) == [i \in 1..Len(executions) |-> executions[i].status]

\* The record of an execute_workflow call that has returned: what it
\* returned, the statuses it set, and what it added to the workflow dict
\* wf and to the alert list als it found when agent.investigate came back.
Returned(caller, frame, outcome, fin, wf, als) ==
    [caller |-> caller, wf_id |-> frame.wf_id, known |-> TRUE,
     investigate |-> IF outcome.kind = "raise" THEN "raised" ELSE "returned",
     ret |-> fin.ret,
     written |-> frame.written \o fin.written,
     recorded |-> Statuses(SubSeq(fin.wf.executions, Len(wf.executions) + 1,
                                  Len(fin.wf.executions))),
     results_appended |-> Len(fin.wf.results) - Len(wf.results),
     alerts_created |-> Len(fin.alerts) - Len(als)]

\* The investigations and the background tasks started so far.
Starts == execCount + Len(tasks)

\* The clock passes to the next second.  The program reads the clock only
\* to make ids, so a second in which no id was made is not told apart.
Stamped(t) ==
    \/ \E i \in 1..Len(wfobjs) : wfobjs[i].id[1] = t
    \/ \E i \in 1..Len(alerts) : alerts[i].id = t

Tick ==
    /\ now < MaxClock
    /\ Stamped(now)
    /\ now' = now + 1
    /\ UNCHANGED <<wfobjs, workflows, alerts, running_tasks, tasks, mainCall, execCount,
                   lastReturn, lastAck, nonOrchVars>>

\* Lines 87-107.
create_workflow(input, t) ==
    [id |-> WorkflowId(t, input.name),
     name |-> input.name,
     type |-> input.type,
     interval |-> input.interval,
     alert_conditions |-> input.alert_conditions,
     status |-> "pending",
     executions |-> <<>>,
     results |-> <<>>]

Registry(reg, id, ref) ==
    [i \in DOMAIN reg \cup {id} |-> IF i = id THEN ref ELSE reg[i]]

CreateWorkflow ==
    /\ Len(wfobjs) < Len(CreateCalls)
    /\ LET input == CreateCalls[Len(wfobjs) + 1]
       IN
        /\ wfobjs' = Append(wfobjs, create_workflow(input, now))
        /\ workflows' = Registry(workflows, WorkflowId(now, input.name), Len(wfobjs) + 1)
    /\ UNCHANGED <<now, alerts, running_tasks, tasks, mainCall, execCount, lastReturn,
                   lastAck, nonOrchVars>>

\* execute_workflow called directly with an id the registry does not hold,
\* lines 119-120.
Execute_Unknown ==
    /\ ~mainCall.active
    /\ LET id == WorkflowId(now, "unknown")
       IN
        lastReturn' = [NoReturn EXCEPT !.caller = "main", !.wf_id = id, !.ret = ErrorMap]
    /\ UNCHANGED <<now, wfobjs, workflows, alerts, running_tasks, tasks, mainCall,
                   execCount, lastAck, nonOrchVars>>

\* Lines 122-132: the status is set to running and agent.investigate is
\* awaited.
SetStatus(objs, ref, status) == [objs EXCEPT ![ref].status = status]

Execute_Call ==
    /\ ~mainCall.active
    /\ Starts < MaxStarts
    /\ \E id \in DOMAIN workflows :
        /\ wfobjs' = SetStatus(wfobjs, workflows[id], "running")
        /\ mainCall' = Frame(id, workflows[id], execCount + 1)
    /\ execCount' = execCount + 1
    /\ UNCHANGED <<now, workflows, alerts, running_tasks, tasks, lastReturn, lastAck, nonOrchVars>>

\* agent.investigate returns or raises, and the direct call runs to its
\* return.
Execute_Return ==
    /\ mainCall.active
    /\ \E outcome \in InvestigateOutcomes(mainCall.inv) :
        LET fin == execute_workflow_finish(wfobjs[mainCall.ref], alerts, outcome, now)
        IN /\ wfobjs' = [wfobjs EXCEPT ![mainCall.ref] = fin.wf]
           /\ alerts' = fin.alerts
           /\ lastReturn' = Returned("main", mainCall, outcome, fin,
                                     wfobjs[mainCall.ref], alerts)
    /\ mainCall' = NoFrame
    /\ UNCHANGED <<now, workflows, running_tasks, tasks, execCount, lastAck, nonOrchVars>>

\* A background task: the loop of schedule_workflow or of
\* continuous_monitoring, with the variables its closure holds.
Task(kind, id, ref, interval) ==
    [kind |-> kind, wf_id |-> id, ref |-> ref, interval |-> interval,
     state |-> "new", previous_result |-> NoResult, call |-> NoFrame]

\* Lines 263-288.
ScheduleWorkflow ==
    /\ Starts < MaxStarts
    /\ \E id \in DOMAIN workflows :
        /\ tasks' = Append(tasks, Task("scheduled", id, workflows[id],
                                       wfobjs[workflows[id]].interval))
        /\ running_tasks' = Registry(running_tasks, id, Len(tasks) + 1)
    /\ UNCHANGED <<now, wfobjs, workflows, alerts, mainCall, execCount, lastReturn,
                   lastAck, nonOrchVars>>

\* Lines 306-333.
ContinuousMonitoring ==
    /\ Starts < MaxStarts
    /\ \E id \in DOMAIN workflows :
        /\ tasks' = Append(tasks, Task("monitor", id, workflows[id], None))
        /\ running_tasks' = Registry(running_tasks, id, Len(tasks) + 1)
    /\ UNCHANGED <<now, wfobjs, workflows, alerts, mainCall, execCount, lastReturn,
                   lastAck, nonOrchVars>>

\* task.cancel(): a task that has not finished gets CancelledError at the
\* await it is suspended in, which no except Exception clause catches; the
\* execute_workflow call it was in is abandoned.
Cancel(tk) ==
    IF tk.state \in {"new", "sleeping", "executing"}
    THEN [tk EXCEPT !.state = "cancelled", !.call = NoFrame]
    ELSE tk

\* Lines 456-463.
PauseWorkflow ==
    /\ \E id \in DOMAIN workflows :
        /\ wfobjs' = SetStatus(wfobjs, workflows[id], "paused")
        /\ tasks' = IF id \in DOMAIN running_tasks
                    THEN [tasks EXCEPT ![running_tasks[id]] = Cancel(@)]
                    ELSE tasks
    /\ UNCHANGED <<now, workflows, alerts, running_tasks, mainCall, execCount, lastReturn,
                   lastAck, nonOrchVars>>

\* Lines 477-488.
ResumeWorkflow ==
    /\ \E id \in DOMAIN workflows :
        LET wf == wfobjs[workflows[id]]
            kind == IF wf.type = "scheduled" THEN "scheduled"
                    ELSE IF wf.type = "continuous" THEN "monitor"
                    ELSE None
        IN /\ wfobjs' = SetStatus(wfobjs, workflows[id], "running")
           /\ IF kind = None
              THEN UNCHANGED <<tasks, running_tasks>>
              ELSE /\ Starts < MaxStarts
                   /\ tasks' = Append(tasks, Task(kind, id, workflows[id],
                                                  IF kind = "scheduled" THEN wf.interval
                                                  ELSE None))
                   /\ running_tasks' = Registry(running_tasks, id, Len(tasks) + 1)
    /\ UNCHANGED <<now, workflows, alerts, mainCall, execCount, lastReturn, lastAck, nonOrchVars>>

\* A task starts, or wakes from its sleep: the while test on the workflow
\* dict of its closure (lines 273, 313) and, when it passes, execute_workflow
\* up to the await of agent.investigate.
Task_Run ==
    /\ \E t \in 1..Len(tasks) :
        /\ tasks[t].state \in {"new", "sleeping"}
        /\ IF wfobjs[tasks[t].ref].status = "paused"
           THEN /\ tasks' = [tasks EXCEPT ![t].state = "ended"]
                /\ UNCHANGED <<wfobjs, execCount>>
           ELSE /\ Starts < MaxStarts
                /\ wfobjs' = SetStatus(wfobjs, workflows[tasks[t].wf_id], "running")
                /\ tasks' = [tasks EXCEPT
                                ![t].state = "executing",
                                ![t].call = Frame(tasks[t].wf_id, workflows[tasks[t].wf_id],
                                                  execCount + 1)]
                /\ execCount' = execCount + 1
    /\ UNCHANGED <<now, workflows, alerts, running_tasks, mainCall, lastReturn, lastAck, nonOrchVars>>

Sleeps(interval) == interval \in {"hourly", "daily", "weekly"}

\* agent.investigate returns or raises in a task: execute_workflow runs to
\* its return and the loop body to its sleep (lines 277-284) or, for a
\* monitor, through the comparison with the previous result (lines 317-330).
Task_ExecReturn ==
    /\ \E t \in 1..Len(tasks) :
        /\ tasks[t].state = "executing"
        /\ \E outcome \in InvestigateOutcomes(tasks[t].call.inv) :
            LET tk == tasks[t]
                fin == execute_workflow_finish(wfobjs[tk.call.ref], alerts, outcome, now)
                changes == _detect_changes(tk.previous_result, fin.ret)
                alerted == tk.kind = "monitor" /\ tk.previous_result.kind # "none"
                           /\ changes # <<>>
            IN /\ wfobjs' = [wfobjs EXCEPT ![tk.call.ref] = fin.wf]
               /\ alerts' = IF alerted
                            THEN Append(fin.alerts,
                                        _create_alert(wfobjs[tk.ref],
                                                      Cond("change_detected", 0, "medium"),
                                                      [NoAlertData EXCEPT !.changes = changes],
                                                      fin.ret, now))
                            ELSE fin.alerts
               /\ tasks' = [tasks EXCEPT
                               ![t].call = NoFrame,
                               ![t].previous_result =
                                   IF tk.kind = "monitor" THEN fin.ret ELSE NoResult,
                               ![t].state =
                                   IF tk.kind = "monitor" \/ Sleeps(tk.interval)
                                   THEN "sleeping" ELSE "ended"]
               /\ lastReturn' = Returned("task", tk.call, outcome, fin,
                                         wfobjs[tk.call.ref], alerts)
    /\ UNCHANGED <<now, workflows, running_tasks, mainCall, execCount, lastAck, nonOrchVars>>

\* Lines 563-567: the first alert with that id is acknowledged.
FirstWithId(als, id) ==
    LET hits == {i \in 1..Len(als) : als[i].id = id}
    IN CHOOSE i \in hits : \A j \in hits : i <= j

NoAck == [id |-> 0 - 1, ret |-> FALSE]

\* A variant that acknowledges every alert with that id.
acknowledge_alert_All(als, id) ==
    [alerts |-> [i \in 1..Len(als) |->
                    IF als[i].id = id THEN [als[i] EXCEPT !.status = "acknowledged"]
                    ELSE als[i]],
     ret |-> \E i \in 1..Len(als) : als[i].id = id]

\* Lines 563-569: the alert list afterwards and the value returned.
acknowledge_alert(als, id) ==
    IF \E i \in 1..Len(als) : als[i].id = id
    THEN [alerts |-> [als EXCEPT ![FirstWithId(als, id)].status = "acknowledged"],
          ret |-> TRUE]
    ELSE [alerts |-> als, ret |-> FALSE]

\* acknowledge_alert called with the id of some second.
AcknowledgeAlert ==
    /\ \E id \in 0..MaxClock :
        LET out == acknowledge_alert(alerts, id)
        IN /\ alerts' = out.alerts
           /\ lastAck' = [id |-> id, ret |-> out.ret]
    /\ UNCHANGED <<now, wfobjs, workflows, running_tasks, tasks, mainCall, execCount,
                   lastReturn, nonOrchVars>>

\* No direct call of _detect_changes or _check_alert_conditions is made.
NoDetectCall ==
    [pc |-> "idle", previous |-> NoResult, current |-> NoResult, changes |-> <<>>]

NoAlertCall ==
    [pc |-> "idle", conditions |-> <<>>, result |-> NoResult, alerts |-> <<>>,
     raised |-> FALSE]

NoProcessCall ==
    [pc |-> "idle", raw_results |-> <<>>, response |-> Raise, returned |-> <<>>]

PureIdle ==
    /\ detectCall = NoDetectCall
    /\ alertCall = NoAlertCall
    /\ processCall = NoProcessCall
    /\ runs = <<>>

NoCampaign ==
    [kind |-> "none", results |-> <<>>, completed |-> 0, failed |-> 0]

\* No campaign is run.
CampIdle ==
    /\ campPc = "idle"
    /\ campTargets = <<>>
    /\ campParallel = FALSE
    /\ campTasks = <<>>
    /\ campOrder = <<>>
    /\ campResults = <<>>
    /\ campReturn = NoCampaign

OrchIdle ==
    /\ now = 0
    /\ wfobjs = <<>>
    /\ workflows = <<>>
    /\ alerts = <<>>
    /\ running_tasks = <<>>
    /\ tasks = <<>>
    /\ mainCall = NoFrame
    /\ execCount = 0
    /\ lastReturn = NoReturn
    /\ lastAck = NoAck

Init ==
    /\ InitEngine
    /\ FnIdle
    /\ OrchIdle
    /\ CampIdle
    /\ PureIdle

Next ==
    \/ Investigate_Plan
    \/ Investigate_LoopTest
    \/ Collect_ExecuteAction
    \/ Collect_Return
    \/ Investigate_ShouldContinue
    \/ Investigate_Branch
    \/ Investigate_Adapt
    \/ Investigate_Increment
    \/ Investigate_Process
    \/ Investigate_Analyze
    \/ Investigate_Report
    \/ Investigate_Evaluate

Spec == Init /\ [][Next]_vars

\* Every await of investigate eventually returns or raises, so the coroutine
\* keeps taking steps while it has one to take.
SpecTerminates == Init /\ [][Next]_vars /\ WF_vars(Next)

EngineIdle ==
    /\ InitEngine
    /\ max_iterations = MaxIterCfg
    /\ tools = <<>>
    /\ auto_report = TRUE

InitWorkflow ==
    /\ EngineIdle
    /\ FnIdle
    /\ OrchIdle
    /\ CampIdle
    /\ PureIdle

NextWorkflow ==
    \/ Tick
    \/ CreateWorkflow
    \/ Execute_Unknown
    \/ Execute_Call
    \/ Execute_Return
    \/ ScheduleWorkflow
    \/ ContinuousMonitoring
    \/ PauseWorkflow
    \/ ResumeWorkflow
    \/ Task_Run
    \/ Task_ExecReturn
    \/ AcknowledgeAlert

SpecWorkflow == InitWorkflow /\ [][NextWorkflow]_vars

(***************************************************************************)
(* run_campaign: one investigation per target, run together and joined by  *)
(* asyncio.gather(return_exceptions=True), or run one after the other.     *)
(***************************************************************************)
\* What can stand in the results list: the bundle an investigation
\* returned, the {error, target} dict of the sequential branch, or the
\* exception object gather puts in the place of a task that raised.
Entry(kind, target) == [kind |-> kind, target |-> target]

\* The outcome of the investigation of one target as the branch stores it.
ParallelEntry(outcome, target) ==
    IF outcome = "raised" THEN Entry("exception", target) ELSE Entry("result", target)

\* A variant of the sequential branch with no try/except around the
\* investigation result: what was raised is stored as it is.
SequentialEntry_Uncaught(outcome, target) ==
    IF outcome = "raised" THEN Entry("exception", target) ELSE Entry("result", target)

SequentialEntry(outcome, target) ==
    IF outcome = "raised" THEN Entry("error_map", target) ELSE Entry("result", target)

\* 'error' in r: true of a dict with that key, false of a bundle, and a
\* TypeError on an exception object, which is no container.
HasErrorKey(r) == r.kind = "error_map"

NotIterable(r) == r.kind = "exception"

\* Lines 438-444: the counts, and what the call gives its caller.
run_campaign_return(res) ==
    IF \E i \in 1..Len(res) : NotIterable(res[i])
    THEN [kind |-> "raised", results |-> <<>>, completed |-> 0, failed |-> 0]
    ELSE [kind |-> "returned",
          results |-> res,
          completed |-> Cardinality({i \in 1..Len(res) : ~HasErrorKey(res[i])}),
          failed |-> Cardinality({i \in 1..Len(res) : HasErrorKey(res[i])})]

InvestigationOutcomes == {"returned", "raised"}

\* Lines 411-417: the investigations of all targets are created.
Campaign_StartParallel ==
    /\ campPc = "called"
    /\ campParallel
    /\ campPc' = "gather"
    /\ UNCHANGED <<campTargets, campParallel, campTasks, campOrder, campResults, campReturn,
                   engineVars, fnVars, orchVars, pureVars>>

\* One of the investigations under gather returns or raises.
Campaign_TaskDone ==
    /\ campPc = "gather"
    /\ \E i \in 1..Len(campTargets) :
        /\ campTasks[i] = "pending"
        /\ \E outcome \in InvestigationOutcomes :
            campTasks' = [campTasks EXCEPT ![i] = outcome]
        /\ campOrder' = Append(campOrder, i)
    /\ UNCHANGED <<campPc, campTargets, campParallel, campResults, campReturn,
                   engineVars, fnVars, orchVars, pureVars>>

\* A variant of the join that lists the outcomes in the order of completion.
Campaign_Gather_CompletionOrder ==
    /\ campPc = "gather"
    /\ \A i \in 1..Len(campTargets) : campTasks[i] # "pending"
    /\ campResults' = [k \in 1..Len(campTargets) |->
                          ParallelEntry(campTasks[campOrder[k]], campTargets[campOrder[k]])]
    /\ campPc' = "counts"
    /\ UNCHANGED <<campTargets, campParallel, campTasks, campOrder, campReturn,
                   engineVars, fnVars, orchVars, pureVars>>

\* Lines 419-420: gather returns when every task is done, with the outcomes
\* in the order of the tasks.
Campaign_Gather ==
    /\ campPc = "gather"
    /\ \A i \in 1..Len(campTargets) : campTasks[i] # "pending"
    /\ campResults' = [i \in 1..Len(campTargets) |->
                          ParallelEntry(campTasks[i], campTargets[i])]
    /\ campPc' = "counts"
    /\ UNCHANGED <<campTargets, campParallel, campTasks, campOrder, campReturn,
                   engineVars, fnVars, orchVars, pureVars>>

\* Lines 424-436: the next target is investigated, or the loop is left.
Campaign_Sequential ==
    /\ campPc = "called"
    /\ ~campParallel
    /\ LET i == Len(campResults) + 1
       IN IF i > Len(campTargets)
          THEN /\ campPc' = "counts"
               /\ UNCHANGED <<campTasks, campOrder, campResults>>
          ELSE /\ \E outcome \in InvestigationOutcomes :
                    /\ campTasks' = [campTasks EXCEPT ![i] = outcome]
                    /\ campOrder' = Append(campOrder, i)
                    /\ campResults' = Append(campResults,
                                             SequentialEntry(outcome, campTargets[i]))
               /\ UNCHANGED campPc
    /\ UNCHANGED <<campTargets, campParallel, campReturn, engineVars, fnVars, orchVars, pureVars>>

\* Lines 438-444.
Campaign_Return ==
    /\ campPc = "counts"
    /\ campReturn' = run_campaign_return(campResults)
    /\ campPc' = "done"
    /\ UNCHANGED <<campTargets, campParallel, campTasks, campOrder, campResults,
                   engineVars, fnVars, orchVars, pureVars>>

InitCampaign ==
    /\ EngineIdle
    /\ FnIdle
    /\ OrchIdle
    /\ PureIdle
    /\ campPc = "called"
    /\ \E n \in 0..MaxTargets : /\ campTargets = [i \in 1..n |-> i]
                                /\ campTasks = [i \in 1..n |-> "pending"]
    /\ campOrder = <<>>
    /\ campParallel \in BOOLEAN
    /\ campResults = <<>>
    /\ campReturn = NoCampaign

NextCampaign ==
    \/ Campaign_StartParallel
    \/ Campaign_TaskDone
    \/ Campaign_Gather
    \/ Campaign_Sequential
    \/ Campaign_Return

SpecCampaign == InitCampaign /\ [][NextCampaign]_vars

(***************************************************************************)
(* A direct call of should_continue_investigation, for every iteration     *)
(* argument and every answer of the gateway.                               *)
(***************************************************************************)
Decide_Call ==
    /\ fnPc = "ready"
    /\ \E r \in DecisionResponses :
        LET out == should_continue_investigation(fnIteration, max_iterations, r)
        IN /\ fnDecision' = out.decision
           /\ fnAsked' = out.asked
           /\ fnResponse' = r
           /\ gwCalls' = IF out.asked THEN gwCalls + 1 ELSE gwCalls
    /\ fnPc' = "returned"
    /\ UNCHANGED <<cfgVars, calls, objective, investigation_id, current_phase, audit, pc, plan,
                   actions_queue, current_batch, results, all_results, iteration, decision,
                   processed_data, analysis, report, evaluation, bundle, exception,
                   gwAllRaised, fnIteration, orchVars, campVars, pureVars>>

InitDecide ==
    /\ InitEngine
    /\ OrchIdle
    /\ CampIdle
    /\ PureIdle
    /\ fnPc = "ready"
    /\ fnIteration \in 0..(MaxIterCfg + 1)
    /\ fnResponse = [kind |-> "raise", continue |-> "absent", recommendation |-> "absent"]
    /\ fnDecision = NoDecision
    /\ fnAsked = FALSE

NextDecide == Decide_Call

SpecDecide == InitDecide /\ [][NextDecide]_vars

(***************************************************************************)
(* A direct call of _detect_changes, for every pair of results out of a    *)
(* set of entity names and of finding counts.                              *)
(***************************************************************************)
EntityNames == {"a", "b", "c"}

\* A result with these entity names and this many key findings.
ResultWith(names, n) ==
    [NoResult EXCEPT !.kind = "result", !.investigation_id = 1,
                     !.entities = names, !.key_findings = Copies(Finding("low"), n)]

DetectInputs == {ResultWith(names, n) : names \in SUBSET EntityNames, n \in 0..MaxFindings}

Detect_Call ==
    /\ detectCall.pc = "ready"
    /\ detectCall' = [detectCall EXCEPT
                         !.pc = "returned",
                         !.changes = _detect_changes(detectCall.previous,
                                                     detectCall.current)]
    /\ UNCHANGED <<engineVars, fnVars, orchVars, campVars, alertCall, processCall, runs>>

InitDetect ==
    /\ EngineIdle
    /\ FnIdle
    /\ OrchIdle
    /\ CampIdle
    /\ alertCall = NoAlertCall
    /\ processCall = NoProcessCall
    /\ runs = <<>>
    /\ \E previous \in DetectInputs, current \in DetectInputs :
          detectCall = [pc |-> "ready", previous |-> previous, current |-> current,
                        changes |-> <<>>]

NextDetect == Detect_Call

SpecDetect == InitDetect /\ [][NextDetect]_vars

(***************************************************************************)
(* A direct call of _check_alert_conditions, for a workflow with one or    *)
(* two alert conditions and a result.                                      *)
(***************************************************************************)
HarnessConditions ==
    {Cond("finding_count", t, "medium") : t \in 0..(MaxFindings + 1)}
    \cup {Cond("high_confidence_finding", 0, "high"),
          Cond("risk_indicator", 0, "high"),
          Cond("keyword_match", 0, "medium")}

ConditionLists ==
    {<<c>> : c \in HarnessConditions}
    \cup {<<c1, c2>> : c1 \in HarnessConditions, c2 \in HarnessConditions}

\* Key findings of an analysis: dicts with a confidence, the strings of the
\* fallback analysis, or both.
FindingLists ==
    {Copies(Finding("low"), n) : n \in 0..MaxFindings}
    \cup {FallbackFindings,
          <<Finding("high")>>,
          <<Finding("medium"), Finding("very_high")>>,
          <<Finding("high")>> \o FallbackFindings}

CheckInputs ==
    {[NoResult EXCEPT !.kind = "result", !.investigation_id = 1, !.key_findings = f,
                      !.risk_indicators = r, !.report_has_keyword = k] :
        f \in FindingLists, r \in {0, 1}, k \in BOOLEAN}

\* The workflow dict the call is given.
HarnessWorkflow(conditions) ==
    create_workflow([name |-> "a", type |-> "one_time", interval |-> None,
                     alert_conditions |-> conditions], 0)

AlertCheck_Call ==
    /\ alertCall.pc = "ready"
    /\ LET out == _check_alert_conditions(HarnessWorkflow(alertCall.conditions),
                                          alertCall.result, 1, <<>>, 0)
       IN alertCall' = [alertCall EXCEPT !.pc = "returned",
                                         !.alerts = out.alerts,
                                         !.raised = out.raised]
    /\ UNCHANGED <<engineVars, fnVars, orchVars, campVars, detectCall, processCall, runs>>

InitAlertCheck ==
    /\ EngineIdle
    /\ FnIdle
    /\ OrchIdle
    /\ CampIdle
    /\ detectCall = NoDetectCall
    /\ processCall = NoProcessCall
    /\ runs = <<>>
    /\ \E conditions \in ConditionLists, result \in CheckInputs :
          alertCall = [pc |-> "ready", conditions |-> conditions, result |-> result,
                       alerts |-> <<>>, raised |-> FALSE]

NextAlertCheck == AlertCheck_Call

SpecAlertCheck == InitAlertCheck /\ [][NextAlertCheck]_vars

(***************************************************************************)
(* Two direct calls of process_raw_data on the same raw results, with a    *)
(* gateway that gives the same answer both times.                          *)
(***************************************************************************)
\* The raw results: what execute_action returns for the actions given.
RawResultLists ==
    {[i \in 1..Len(s) |-> execute_action(s[i]).result] :
        s \in SeqsUpTo({Action(t) : t \in ToolNames}, 2)}

\* One call: lines 297-337.  The clock may have advanced when line 321
\* reads it.
Process_Call ==
    /\ processCall.pc \in {"ready", "once"}
    /\ \E t \in now..MaxClock :
        LET r == processCall.response
            processed == process_raw_data(r, processCall.raw_results, t)
        IN /\ now' = t
           /\ processCall' = [processCall EXCEPT
                                 !.pc = IF @ = "ready" THEN "once" ELSE "twice",
                                 !.returned = Append(@, processed)]
           /\ audit' = IF r.kind = "object"
                       THEN Append(audit, LogEntry(investigation_id, "processing",
                                                   "data_processed", None))
                       ELSE audit
           /\ Asked(r)
    /\ current_phase' = "processing"
    /\ UNCHANGED <<cfgVars, objective, investigation_id, pc, plan, actions_queue,
                   current_batch, results, all_results, iteration, decision,
                   processed_data, analysis, report, evaluation, bundle, exception,
                   calls, fnVars, wfobjs, workflows, alerts, running_tasks, tasks,
                   mainCall, execCount, lastReturn, lastAck, campVars, detectCall,
                   alertCall, runs>>

InitProcess ==
    /\ InitEngine
    /\ FnIdle
    /\ OrchIdle
    /\ CampIdle
    /\ detectCall = NoDetectCall
    /\ alertCall = NoAlertCall
    /\ runs = <<>>
    /\ \E raw \in RawResultLists, r \in JsonResponses :
          processCall = [pc |-> "ready", raw_results |-> raw, response |-> r,
                         returned |-> <<>>]

NextProcess == Process_Call

SpecProcess == InitProcess /\ [][NextProcess]_vars

(***************************************************************************)
(* Several investigate() coroutines on the one agent, as run_campaign's    *)
(* gather (lines 411-420) or a background loop beside a direct call make   *)
(* them.  Each has a plan of one action.  A coroutine runs from one        *)
(* suspension (llm.complete, the tool, asyncio.sleep) to the next without  *)
(* interruption; memory.store does not suspend.  objective,                *)
(* investigation_id, current_phase and audit are the agent's fields.       *)
(***************************************************************************)
\* What generate_investigation_id gives the r-th investigation.
InvestigationIdOf(r) == <<"inv", r>>

\* The objective argument of the r-th investigation.
ObjectiveOf(r) == <<"objective", r>>

NewRun ==
    [pc |-> "start", own_id |-> None, wrote |-> {}, prompted |-> {}, bundle_id |-> None,
     bundle_objective |-> None]

SharedFrame ==
    UNCHANGED <<cfgVars, pc, plan, actions_queue, current_batch, results, all_results,
                iteration, decision, processed_data, analysis, report, evaluation, bundle,
                exception, gwCalls, gwAllRaised, calls, fnVars, orchVars, campVars,
                detectCall, alertCall, processCall>>

\* investigate is called: lines 126-128, up to the await of line 160.
Shared_Plan ==
    /\ Len(runs) < MaxRuns
    /\ LET r == Len(runs) + 1
       IN /\ runs' = Append(runs, [NewRun EXCEPT !.pc = "planning",
                                                 !.own_id = InvestigationIdOf(r)])
          /\ objective' = ObjectiveOf(r)
          /\ investigation_id' = InvestigationIdOf(r)
    /\ current_phase' = "planning"
    /\ UNCHANGED audit
    /\ SharedFrame

\* The planning answer arrives (lines 161-175); collect_intelligence and
\* execute_action run up to the await of the tool (line 234).
Shared_Planned ==
    /\ \E r \in 1..Len(runs), ok \in BOOLEAN :
        /\ runs[r].pc = "planning"
        /\ audit' = IF ok THEN Append(audit, LogEntry(investigation_id, "planning",
                                                      "investigation_planned", None))
                    ELSE audit
        /\ runs' = [runs EXCEPT ![r].pc = "tool",
                                ![r].wrote = IF ok THEN @ \cup {Len(audit) + 1} ELSE @]
    /\ current_phase' = "collection"
    /\ UNCHANGED <<objective, investigation_id>>
    /\ SharedFrame

\* The tool returns or raises (lines 236-258): the outcome is logged, and
\* collect_intelligence sleeps (line 279).
Shared_Collected ==
    /\ \E r \in 1..Len(runs), ok \in BOOLEAN :
        /\ runs[r].pc = "tool"
        /\ audit' = Append(audit, LogEntry(investigation_id, "collection",
                                           IF ok THEN "collection" ELSE "collection_error",
                                           "search"))
        /\ runs' = [runs EXCEPT ![r].pc = "sleep", ![r].wrote = @ \cup {Len(audit) + 1}]
    /\ UNCHANGED <<objective, investigation_id, current_phase>>
    /\ SharedFrame

\* After the sleep should_continue_investigation builds its prompt from
\* self.objective (line 599) and asks the gateway (line 621).
Shared_Decide ==
    /\ \E r \in 1..Len(runs) :
        /\ runs[r].pc = "sleep"
        /\ runs' = [runs EXCEPT ![r].pc = "deciding", ![r].prompted = @ \cup {objective}]
    /\ UNCHANGED <<objective, investigation_id, current_phase, audit>>
    /\ SharedFrame

\* The decision arrives; the queue is empty, so the loop ends, and
\* process_raw_data runs up to the await of line 318.
Shared_Process ==
    /\ \E r \in 1..Len(runs) :
        /\ runs[r].pc = "deciding"
        /\ runs' = [runs EXCEPT ![r].pc = "processing", ![r].prompted = @ \cup {objective}]
    /\ current_phase' = "processing"
    /\ UNCHANGED <<objective, investigation_id, audit>>
    /\ SharedFrame

\* The processing answer arrives (lines 319-337); analyze_intelligence runs
\* up to the await of line 396.
Shared_Analyze ==
    /\ \E r \in 1..Len(runs), ok \in BOOLEAN :
        /\ runs[r].pc = "processing"
        /\ audit' = IF ok THEN Append(audit, LogEntry(investigation_id, "processing",
                                                      "data_processed", None))
                    ELSE audit
        /\ runs' = [runs EXCEPT ![r].pc = "analyzing",
                                ![r].wrote = IF ok THEN @ \cup {Len(audit) + 1} ELSE @,
                                ![r].prompted = @ \cup {objective}]
    /\ current_phase' = "analysis"
    /\ UNCHANGED <<objective, investigation_id>>
    /\ SharedFrame

\* The analysis answer arrives (lines 397-410); generate_report runs up to
\* the await of line 478.
Shared_Report ==
    /\ \E r \in 1..Len(runs), ok \in BOOLEAN :
        /\ runs[r].pc = "analyzing"
        /\ audit' = IF ok THEN Append(audit, LogEntry(investigation_id, "analysis",
                                                      "intelligence_analyzed", None))
                    ELSE audit
        /\ runs' = [runs EXCEPT ![r].pc = "reporting",
                                ![r].wrote = IF ok THEN @ \cup {Len(audit) + 1} ELSE @,
                                ![r].prompted = @ \cup {objective}]
    /\ current_phase' = "dissemination"
    /\ UNCHANGED <<objective, investigation_id>>
    /\ SharedFrame

\* The report arrives (lines 479-493); evaluate_investigation runs up to
\* the await of line 560.
Shared_Evaluate ==
    /\ \E r \in 1..Len(runs) :
        /\ runs[r].pc = "reporting"
        /\ audit' = Append(audit, LogEntry(investigation_id, "dissemination",
                                           "report_generated", None))
        /\ runs' = [runs EXCEPT ![r].pc = "evaluating",
                                ![r].wrote = @ \cup {Len(audit) + 1},
                                ![r].prompted = @ \cup {objective}]
    /\ current_phase' = "feedback"
    /\ UNCHANGED <<objective, investigation_id>>
    /\ SharedFrame

\* The evaluation answer arrives (lines 561-577) and investigate compiles
\* the bundle (lines 763-779).
Shared_Return ==
    /\ \E r \in 1..Len(runs), ok \in BOOLEAN :
        /\ runs[r].pc = "evaluating"
        /\ audit' = IF ok THEN Append(audit, LogEntry(investigation_id, "feedback",
                                                      "investigation_evaluated", None))
                    ELSE audit
        /\ runs' = [runs EXCEPT ![r].pc = "done",
                                ![r].wrote = IF ok THEN @ \cup {Len(audit) + 1} ELSE @,
                                ![r].bundle_id = investigation_id,
                                ![r].bundle_objective = ObjectiveOf(r)]
    /\ UNCHANGED <<objective, investigation_id, current_phase>>
    /\ SharedFrame

InitShared ==
    /\ EngineIdle
    /\ FnIdle
    /\ OrchIdle
    /\ CampIdle
    /\ PureIdle

NextShared ==
    \/ Shared_Plan
    \/ Shared_Planned
    \/ Shared_Collected
    \/ Shared_Decide
    \/ Shared_Process
    \/ Shared_Analyze
    \/ Shared_Report
    \/ Shared_Evaluate
    \/ Shared_Return

SpecShared == InitShared /\ [][NextShared]_vars

(***************************************************************************)
(* Properties of the investigation engine.                                 *)
(***************************************************************************)
BundleKeys == {"investigation_id", "objective", "plan", "collection_results",
               "processed_data", "analysis", "report", "evaluation", "metadata"}

\* C1: whatever the gateway answers on each call and whatever the tools do,
\* investigate never raises and returns a bundle with the nine keys.
C1_InvestigateNeverRaises ==
    /\ pc # "raised"
    /\ pc = "done" => DOMAIN bundle = BundleKeys

\* C2: when every gateway call raised, investigate returns a bundle whose
\* plan, processed_data, analysis and evaluation are the fallback values.
C2_FallbackBundle ==
    gwAllRaised =>
        /\ pc # "raised"
        /\ pc = "done" =>
            /\ bundle.plan.kind = "fallback"
            /\ bundle.plan.actions.isList
            /\ Len(bundle.plan.actions.items) = 1
            /\ bundle.plan.actions.items[1].isDict
            /\ bundle.processed_data.kind = "fallback"
            /\ bundle.processed_data.data_quality_notes # <<>>
            /\ bundle.processed_data.raw_count = Len(bundle.collection_results)
            /\ bundle.analysis.kind = "fallback"
            /\ bundle.analysis.confidence_assessment = "low"
            /\ bundle.evaluation.kind = "fallback"
            /\ bundle.evaluation.objective_achievement = "0"
            /\ bundle.evaluation.notes = "Evaluation failed"

C2_Witness ==
    /\ pc = "done"
    /\ gwAllRaised
    /\ gwCalls = 6
    /\ Len(bundle.collection_results) = 1

\* C3: the iteration counter stays within 0..max_iterations in every state
\* of an investigation.
C3_IterationBounded ==
    /\ 0 <= iteration
    /\ iteration <= max_iterations

\* The counter is at its cap while adapt_strategy has refilled the queue.
C3_Witness ==
    /\ pc = "loop"
    /\ max_iterations >= 2
    /\ iteration = max_iterations
    /\ actions_queue.items # <<>>
    /\ \E i \in 1..Len(audit) : audit[i].action = "strategy_adapted"

\* C4: should_continue_investigation is this decision function: at or past
\* the cap, continue is false and the gateway is not asked; below it the
\* gateway's decision is returned; and when the gateway raises or answers
\* no JSON, continue is (iteration < max_iterations - 2) with
\* recommendation 'continue'.
C4_DecisionFunction ==
    fnPc = "returned" =>
        IF fnIteration >= max_iterations
        THEN /\ fnDecision.kind = "object"
             /\ fnDecision.continue = "false"
             /\ ~fnAsked
             /\ gwCalls = 0
        ELSE IF fnResponse.kind \in {"raise", "notjson"}
        THEN /\ fnDecision.kind = "object"
             /\ (fnDecision.continue = "true") = (fnIteration < max_iterations - 2)
             /\ (fnDecision.continue = "false") = ~(fnIteration < max_iterations - 2)
             /\ fnDecision.recommendation = "continue"
             /\ fnAsked
             /\ gwCalls = 1
        ELSE /\ fnDecision.kind = fnResponse.kind
             /\ fnDecision.continue = fnResponse.continue
             /\ fnDecision.recommendation = fnResponse.recommendation
             /\ fnAsked
             /\ gwCalls = 1

\* The gateway raised more than two passes before the cap: the fallback
\* decision is to continue.
C4_Witness ==
    /\ fnPc = "returned"
    /\ fnResponse.kind = "raise"
    /\ fnIteration < max_iterations - 2
    /\ fnDecision.continue = "true"
    /\ fnDecision.recommendation = "continue"

\* The results of the actions executed so far, in execution order.
Executed == all_results \o results

IsCollectionEntry(e) == e.action \in {"collection", "collection_error"}

CollectionEntries == SelectSeq(audit, IsCollectionEntry)

\* C5: execute_action does not raise on an action dict; an unknown tool
\* gives success = false (not available), a tool that throws gives
\* success = false with the error, a tool that returns gives success = true,
\* and every executed action has exactly one audit-log entry.
C5_ExecuteAction ==
    /\ exception = "execute_action" => ~Head(current_batch).isDict
    /\ Len(CollectionEntries) = Len(Executed)
    /\ \A i \in 1..Len(Executed) :
        LET res == Executed[i]
            entry == CollectionEntries[i]
        IN /\ entry.tool = res.tool
           /\ entry.investigation_id = investigation_id
           /\ entry.action = IF res.success THEN "collection" ELSE "collection_error"
           /\ ~Registered(res.tool) => ~res.success /\ res.error = "not_available"
           /\ Registered(res.tool) /\ ToolRaises(res.tool) =>
                  ~res.success /\ res.error = "tool_error"
           /\ Registered(res.tool) /\ ~ToolRaises(res.tool) =>
                  res.success /\ res.error = None

\* One run has executed a tool that returned, one that threw and one that
\* is not registered.
C5_Witness ==
    /\ \E i \in 1..Len(Executed) : Executed[i].success
    /\ \E i \in 1..Len(Executed) : Executed[i].error = "tool_error"
    /\ \E i \in 1..Len(Executed) : Executed[i].error = "not_available"
    /\ Len(CollectionEntries) = 3

(***************************************************************************)
(* Workflow status and execution history.                                  *)
(***************************************************************************)
\* A step of create_workflow: one more workflow dict exists.
IsCreateStep == Len(wfobjs') = Len(wfobjs) + 1

CreatedPending ==
    IsCreateStep =>
        LET wf == wfobjs'[Len(wfobjs')]
        IN /\ wf.status = "pending"
           /\ wf.executions = <<>>
           /\ wf.results = <<>>
           /\ UNCHANGED <<execCount, mainCall, tasks>>

\* The call returned the result when no exception occurred inside it, and
\* the error map when one did.
StatusSequence ==
    lastReturn.known =>
        /\ lastReturn.investigate = "raised" => lastReturn.ret.kind = "error"
        /\ lastReturn.written = IF lastReturn.ret.kind = "result"
                                THEN <<"running", "completed">>
                                ELSE <<"running", "failed">>

\* C6: create_workflow leaves the new workflow pending, with empty
\* execution and result histories, and starts no investigation; the
\* statuses one execute_workflow call on an existing workflow writes are
\* running then completed when the investigation returned, and running then
\* failed when it raised.
C6_StatusSequence == [][CreatedPending]_vars /\ []StatusSequence

IsPrefix(s, t) == Len(s) <= Len(t) /\ SubSeq(t, 1, Len(s)) = s

ExecutionsAppendOnly ==
    \A i \in 1..Len(wfobjs) : IsPrefix(wfobjs[i].executions, wfobjs'[i].executions)

OneExecutionPerCall ==
    lastReturn.known =>
        /\ Len(lastReturn.recorded) = 1
        /\ lastReturn.recorded[1] \in {"completed", "failed"}

\* C7: every execute_workflow call on an existing workflow that runs to its
\* return appends exactly one Execution, completed or failed, whatever the
\* investigation gave and whatever alert conditions are configured; the
\* execution history only grows at its end.
C7_OneExecutionPerCall == [][ExecutionsAppendOnly]_vars /\ []OneExecutionPerCall

\* C8: in every reachable state a workflow whose status is completed or
\* failed has a non-empty execution history whose last Execution has that
\* status.
C8_StatusAfterExecution ==
    \A i \in 1..Len(wfobjs) :
        wfobjs[i].status \in {"completed", "failed"} =>
            /\ wfobjs[i].executions # <<>>
            /\ wfobjs[i].executions[Len(wfobjs[i].executions)].status = wfobjs[i].status

\* A workflow that went to completed and then, in the same call, to failed.
C8_Witness ==
    \E i \in 1..Len(wfobjs) :
        /\ wfobjs[i].status = "failed"
        /\ Statuses(wfobjs[i].executions) = <<"completed", "failed">>

UnknownIdChangesNothing ==
    (lastReturn' # lastReturn /\ ~lastReturn'.known) =>
        UNCHANGED <<wfobjs, workflows, alerts>>

ReturnsValue ==
    lastReturn.caller # None =>
        /\ ~lastReturn.known => lastReturn.ret = ErrorMap
        /\ lastReturn.known => lastReturn.ret.kind \in {"result", "error"}
        /\ (lastReturn.known /\ lastReturn.investigate = "raised") =>
              /\ lastReturn.ret = ErrorMap
              /\ lastReturn.recorded = <<"failed">>

\* C9: execute_workflow gives its caller a value and no exception: for an
\* unknown id the error map, with no workflow, execution or alert changed;
\* for a known id the investigation result or an error map; and when
\* agent.investigate raised, a failed Execution is appended and the error
\* map returned.
C9_NeverRaises == [][UnknownIdChangesNothing]_vars /\ []ReturnsValue

\* agent.investigate raised in a call on a known workflow, and the call
\* returned.
C9_Witness ==
    /\ lastReturn.known
    /\ lastReturn.investigate = "raised"
    /\ lastReturn.ret = ErrorMap

(***************************************************************************)
(* Campaigns.                                                              *)
(***************************************************************************)
Raising == {i \in 1..Len(campTargets) : campTasks[i] = "raised"}

\* C10: a parallel campaign in which investigations raise still returns:
\* one entry per target, the entries of the raising targets and only they
\* marked as failed, completed + failed = number of targets and failed =
\* number of targets that raised.
C10_ParallelIsolation ==
    (campPc = "done" /\ campParallel) =>
        /\ campReturn.kind = "returned"
        /\ Len(campReturn.results) = Len(campTargets)
        /\ \A i \in 1..Len(campReturn.results) :
              /\ campReturn.results[i].target = campTargets[i]
              /\ (campReturn.results[i].kind # "result") <=> (i \in Raising)
        /\ campReturn.completed + campReturn.failed = Len(campTargets)
        /\ campReturn.failed = Cardinality(Raising)

WithErrorKey(res) == {i \in 1..Len(res) : HasErrorKey(res[i])}

\* C11: a sequential campaign returns for every target list and every set
\* of raising targets: the entries with an error key are exactly those at
\* the indices of the raising targets, completed counts the entries without
\* the key, failed those with it, and completed + failed = number of
\* targets.
C11_SequentialIsolation ==
    (campPc = "done" /\ ~campParallel) =>
        /\ campReturn.kind = "returned"
        /\ Len(campReturn.results) = Len(campTargets)
        /\ WithErrorKey(campReturn.results) = Raising
        /\ campReturn.failed = Cardinality(WithErrorKey(campReturn.results))
        /\ campReturn.completed =
              Cardinality((1..Len(campReturn.results)) \ WithErrorKey(campReturn.results))
        /\ campReturn.completed + campReturn.failed = Len(campTargets)

\* Three targets, the second raising: completed 2, failed 1, error at
\* index 2 only.
C11_Witness ==
    /\ campPc = "done"
    /\ ~campParallel
    /\ Len(campTargets) = 3
    /\ Raising = {2}
    /\ campReturn.completed = 2
    /\ campReturn.failed = 1
    /\ WithErrorKey(campReturn.results) = {2}

\* C12: once the branch has filled it, the results list has one entry per
\* target and entry i is the outcome of the investigation of target i, in
\* both modes and whatever the order of completion.
C12_ResultsInTargetOrder ==
    campPc \in {"counts", "done"} =>
        /\ Len(campResults) = Len(campTargets)
        /\ \A i \in 1..Len(campResults) :
              /\ campResults[i].target = campTargets[i]
              /\ (campResults[i].kind = "result") <=> (campTasks[i] = "returned")

\* A parallel campaign whose investigations completed in the reverse order
\* of the targets and that returned.
C12_Witness ==
    /\ campPc = "done"
    /\ campParallel
    /\ campOrder = <<3, 2, 1>>
    /\ campReturn.kind = "returned"
    /\ Len(campReturn.results) = 3

(***************************************************************************)
(* Background loops, pause and resume.                                     *)
(***************************************************************************)
\* The workflow the registry holds under id is paused.
IsPaused(id) == wfobjs[workflows[id]].status = "paused"

\* Task t goes into execute_workflow in this step.
TaskStartsExecution(t) ==
    tasks[t].state # "executing" /\ tasks'[t].state = "executing"

\* The execute_workflow call of task t returns in this step: an Execution
\* is appended, the status is set and alerts may be created.
TaskFinishesExecution(t) ==
    tasks[t].state = "executing" /\ tasks'[t].state \in {"sleeping", "ended"}

NoLoopStepWhilePaused ==
    \A t \in 1..Len(tasks) :
        IsPaused(tasks[t].wf_id) =>
            /\ ~TaskStartsExecution(t)
            /\ ~TaskFinishesExecution(t)

\* C13: while a workflow is paused, no background loop started for its id
\* by an earlier schedule_workflow, continuous_monitoring or
\* resume_workflow call starts an execute_workflow call, appends an
\* Execution, creates an Alert or takes the status away from paused.
C13_PausedStaysQuiet == [][NoLoopStepWhilePaused]_vars

(***************************************************************************)
(* Alerts.                                                                 *)
(***************************************************************************)
\* The alert names the investigation of a result stored in a workflow dict
\* that carries the alert's workflow id.
HasStoredInvestigation(alert) ==
    \E i \in 1..Len(wfobjs) :
        /\ wfobjs[i].id = alert.workflow_id
        /\ \E k \in 1..Len(wfobjs[i].results) :
              wfobjs[i].results[k].investigation_id = alert.investigation_id

\* C14: in every reachable state each alert's workflow_id is a key of the
\* registry and its investigation_id is set (not None) and is the id of a
\* completed investigation result of that workflow, also for the alerts
\* the monitor loop creates after a failed run.
C14_AlertReferences ==
    \A a \in 1..Len(alerts) :
        /\ alerts[a].workflow_id \in DOMAIN workflows
        /\ alerts[a].investigation_id # 0
        /\ HasStoredInvestigation(alerts[a])

(***************************************************************************)
(* Continuous monitoring.                                                  *)
(***************************************************************************)
\* What the latest execute_workflow call on this workflow dict returned:
\* the result it stored, or the error map when its last Execution failed.
PrecedingResult(wf) ==
    IF wf.executions = <<>> THEN NoResult
    ELSE IF wf.executions[Len(wf.executions)].status = "completed"
    THEN wf.results[Len(wf.results)]
    ELSE ErrorMap

\* An alert of type change_detected is appended in this step.
ChangeAlertCreated ==
    \E a \in (Len(alerts) + 1)..Len(alerts') :
        alerts'[a].condition.type = "change_detected"

\* A run of a monitor loop on a continuous workflow ends in this step.
MonitorRunCompared ==
    \A t \in 1..Len(tasks) :
        (/\ tasks[t].kind = "monitor"
         /\ TaskFinishesExecution(t)
         /\ wfobjs[tasks[t].call.ref].type = "continuous") =>
            LET previous == PrecedingResult(wfobjs[tasks[t].call.ref])
                current == lastReturn'.ret
            IN IF previous.kind = "none"
               THEN ~ChangeAlertCreated
               ELSE ChangeAlertCreated <=> (_detect_changes(previous, current) # <<>>)

\* C15: after every run of a continuous-monitoring workflow but the
\* workflow's first, the new result is compared with the result of the run
\* of that workflow just before it, and a change_detected alert is created
\* iff the change list is not empty; the first run creates none.
C15_ComparedWithPrecedingRun == [][MonitorRunCompared]_vars

\* A loop started by schedule_workflow is left in this step.
ScheduledLoopEnds(t) ==
    /\ tasks[t].kind = "scheduled"
    /\ tasks[t].state \in {"new", "sleeping", "executing"}
    /\ tasks'[t].state = "ended"

LoopEndsOnlyWhenPaused ==
    \A t \in 1..Len(tasks) :
        ScheduledLoopEnds(t) => wfobjs[tasks[t].ref].status = "paused"

\* C16: a loop started by schedule_workflow goes on calling
\* execute_workflow for as long as the workflow is not paused, whatever the
\* schedule configuration: it is left only when its while test finds the
\* workflow paused.
C16_LoopEndsOnlyWhenPaused == [][LoopEndsOnlyWhenPaused]_vars

(***************************************************************************)
(* Change detection.                                                       *)
(***************************************************************************)
ChangesOfType(changes, type) == {i \in 1..Len(changes) : changes[i].type = type}

\* C17: _detect_changes returns one new_entities record, listing the names
\* in current and not in previous with their count, iff there are any; one
\* removed_entities record, listing the names in previous and not in
\* current, iff there are any; one new_findings record with delta = current
\* count - previous count iff the current count is the greater; and no
\* other record.
C17_DetectChanges ==
    detectCall.pc = "returned" =>
        LET changes == detectCall.changes
            added == detectCall.current.entities \ detectCall.previous.entities
            removed == detectCall.previous.entities \ detectCall.current.entities
            before == Len(detectCall.previous.key_findings)
            after == Len(detectCall.current.key_findings)
        IN /\ \A i \in 1..Len(changes) :
                 changes[i].type \in {"new_entities", "removed_entities", "new_findings"}
           /\ Cardinality(ChangesOfType(changes, "new_entities")) =
                 IF added # {} THEN 1 ELSE 0
           /\ \A i \in ChangesOfType(changes, "new_entities") :
                 changes[i].entities = added /\ changes[i].count = Cardinality(added)
           /\ Cardinality(ChangesOfType(changes, "removed_entities")) =
                 IF removed # {} THEN 1 ELSE 0
           /\ \A i \in ChangesOfType(changes, "removed_entities") :
                 changes[i].entities = removed /\ changes[i].count = Cardinality(removed)
           /\ Cardinality(ChangesOfType(changes, "new_findings")) =
                 IF after > before THEN 1 ELSE 0
           /\ \A i \in ChangesOfType(changes, "new_findings") :
                 /\ changes[i].delta = after - before
                 /\ changes[i].previous_count = before
                 /\ changes[i].current_count = after

\* previous {a, b} with no finding, current {b, c} with three: the three
\* records, in this order.
C17_Witness ==
    /\ detectCall.pc = "returned"
    /\ detectCall.previous.entities = {"a", "b"}
    /\ detectCall.current.entities = {"b", "c"}
    /\ Len(detectCall.changes) = 3
    /\ detectCall.changes[1].type = "new_entities"
    /\ detectCall.changes[1].entities = {"c"}
    /\ detectCall.changes[2].type = "removed_entities"
    /\ detectCall.changes[2].entities = {"a"}
    /\ detectCall.changes[3].type = "new_findings"
    /\ detectCall.changes[3].delta = 3

(***************************************************************************)
(* Alert conditions.                                                       *)
(***************************************************************************)
\* The loop of _check_alert_conditions gets to condition i: no condition
\* before it is a high_confidence_finding one met by a finding that is no
\* dict.
Evaluated(i) ==
    \A j \in 1..(i - 1) :
        alertCall.conditions[j].type = "high_confidence_finding" =>
            \A k \in 1..Len(alertCall.result.key_findings) :
                alertCall.result.key_findings[k].isDict

\* The evaluated occurrences of a condition, and the alerts made for it.
EvaluatedOccurrences(c) ==
    {i \in 1..Len(alertCall.conditions) : alertCall.conditions[i] = c /\ Evaluated(i)}

AlertsFor(c) == {a \in 1..Len(alertCall.alerts) : alertCall.alerts[a].condition = c}

AnyHighConfidence(result) ==
    \E k \in 1..Len(result.key_findings) :
        result.key_findings[k].confidence \in {"very_high", "high"}

\* C19: for every result, the degraded one with the fallback analysis
\* included, alert evaluation with a high_confidence_finding condition
\* ends without an exception and has created an Alert for the condition iff
\* some key finding has confidence very_high or high.
C19_HighConfidence ==
    alertCall.pc = "returned" =>
        \A i \in 1..Len(alertCall.conditions) :
            LET c == alertCall.conditions[i]
            IN c.type = "high_confidence_finding" =>
                  /\ ~alertCall.raised
                  /\ (AlertsFor(c) # {}) <=> AnyHighConfidence(alertCall.result)

\* Only the status of the alert at position i may differ between two lists.
SameButStatus(before, after, i) ==
    [after[i] EXCEPT !.status = before[i].status] = before[i]

\* The positions of the alerts whose status changes in the step.
StatusChanged ==
    {i \in 1..Len(alerts) : i <= Len(alerts') /\ alerts'[i].status # alerts[i].status}

\* What one step may do to the alert list.
AlertLifecycle ==
    /\ Len(alerts') >= Len(alerts)
    /\ \A i \in 1..Len(alerts) :
        /\ SameButStatus(alerts, alerts', i)
        /\ alerts[i].status = "acknowledged" => alerts'[i].status = "acknowledged"
    /\ \A i \in (Len(alerts) + 1)..Len(alerts') : alerts'[i].status = "active"
    /\ \A i \in StatusChanged :
        /\ alerts'[i].status = "acknowledged"
        /\ lastAck'.ret /\ lastAck'.id = alerts[i].id
        /\ StatusChanged = {i}
        /\ Len(alerts') = Len(alerts)
        /\ UNCHANGED <<now, wfobjs, workflows, running_tasks, tasks, mainCall,
                       execCount, lastReturn>>
    /\ lastAck' # lastAck =>
        /\ lastAck'.ret <=> \E i \in 1..Len(alerts) : alerts[i].id = lastAck'.id
        /\ lastAck'.ret =>
              \E i \in 1..Len(alerts') :
                  alerts'[i].id = lastAck'.id /\ alerts'[i].status = "acknowledged"
        /\ ~lastAck'.ret => alerts' = alerts

\* C20: An Alert is appended with status active; the status of an existing
\* alert changes only in an acknowledge_alert step that returns true for its
\* id, it becomes acknowledged, and no other alert changes in that step; an
\* acknowledged alert stays acknowledged; no alert leaves the list; and
\* acknowledge_alert with an id that no alert carries returns false and leaves
\* the list as it was.
C20_AlertLifecycle == [][AlertLifecycle]_vars

\* Two alerts carry the same id, acknowledge_alert returned true for it, and
\* one of them is acknowledged while the other is still active.
C20_Witness ==
    /\ lastAck.ret
    /\ \E i, j \in 1..Len(alerts) :
        /\ alerts[i].id = lastAck.id /\ alerts[j].id = lastAck.id
        /\ alerts[i].status = "acknowledged"
        /\ alerts[j].status = "active"

(***************************************************************************)
(* The order of the phases within one investigation.                       *)
(***************************************************************************)
\* The phase a method of the engine belongs to, as a number.
PhaseOfCall(op) ==
    CASE op = "plan_investigation" -> 1
      [] op \in {"collect_intelligence", "execute_action",
                 "should_continue_investigation", "adapt_strategy"} -> 2
      [] op = "process_raw_data" -> 3
      [] op = "analyze_intelligence" -> 4
      [] op = "generate_report" -> 5
      [] op = "evaluate_investigation" -> 6

\* IntelligencePhase in lifecycle order.
PhaseRank(phase) ==
    CASE phase = None -> 0
      [] phase = "planning" -> 1
      [] phase = "collection" -> 2
      [] phase = "processing" -> 3
      [] phase = "analysis" -> 4
      [] phase = "dissemination" -> 5
      [] phase = "feedback" -> 6

\* How often a method has been invoked.
Invocations(op) == Cardinality({i \in 1..Len(calls) : calls[i].op = op})

PhasesInOrder ==
    /\ \A i \in 1..(Len(calls) - 1) :
        PhaseOfCall(calls[i].op) <= PhaseOfCall(calls[i + 1].op)
    /\ \A op \in {"plan_investigation", "process_raw_data", "analyze_intelligence",
                  "generate_report", "evaluate_investigation"} : Invocations(op) <= 1
    /\ pc = "done" =>
        /\ Invocations("plan_investigation") = 1
        /\ Invocations("process_raw_data") = 1
        /\ Invocations("analyze_intelligence") = 1
        /\ Invocations("evaluate_investigation") = 1
        /\ Invocations("generate_report") = (IF auto_report THEN 1 ELSE 0)

PhaseNeverBackwards == PhaseRank(current_phase') >= PhaseRank(current_phase)

\* C21: the methods investigate invokes come in the order planning,
\* collection, processing, analysis, dissemination, feedback; none of plan,
\* process, analyze, report and evaluate is invoked twice; a run that has
\* returned invoked plan, process, analyze and evaluate once each and
\* generate_report once iff auto_report is set; no execute_action follows
\* process_raw_data; and current_phase never moves to an earlier phase.
C21_PhaseOrder == []PhasesInOrder /\ [][PhaseNeverBackwards]_vars

\* A run with a report has returned after two collection batches and an
\* adaptation of the strategy.
C21_Witness ==
    /\ pc = "done"
    /\ auto_report
    /\ Invocations("collect_intelligence") >= 2
    /\ Invocations("adapt_strategy") >= 1

(***************************************************************************)
(* Idempotence of process_raw_data.                                        *)
(***************************************************************************)
\* C22: two process_raw_data calls on the same raw results, the gateway
\* giving the same answer to both, return equal values, field by field.
C22_ProcessIdempotent ==
    processCall.pc = "twice" => processCall.returned[1] = processCall.returned[2]

(***************************************************************************)
(* Collection in queue order.                                              *)
(***************************************************************************)
IsExecuteCall(c) == c.op = "execute_action"

IsCollectCall(c) == c.op = "collect_intelligence"

IsAdaptCall(c) == c.op = "adapt_strategy"

\* The actions execute_action was invoked with, in order.
ExecutedActions ==
    LET es == SelectSeq(calls, IsExecuteCall) IN [i \in 1..Len(es) |-> es[i].action]

RECURSIVE Flatten(_)
Flatten(lists) ==
    IF lists = <<>> THEN <<>> ELSE Head(lists).actions \o Flatten(Tail(lists))

\* Every action that was ever put on the queue, in queue order: the plan's
\* actions, then what each adapt_strategy call returned.
Enqueued == plan.actions.items \o Flatten(SelectSeq(calls, IsAdaptCall))

\* The batches handed to collect_intelligence, in order.
Batches == SelectSeq(calls, IsCollectCall)

\* The execute_action call that raised has no outcome.
RaisedInExecute == IF exception = "execute_action" THEN 1 ELSE 0

\* C23: the batches are consecutive slices of the queue of at most three
\* actions, one per loop pass; the actions executed are a prefix of the
\* queue in queue order, so no queue position is executed twice; the results
\* hold one entry per executed action, entry i being the outcome of the i-th
\* executed action, failed ones included; and the length of the results is
\* at most 3 * max_iterations.
C23_QueueOrder ==
    LET batches == Batches
        batched == Flatten(batches)
        actions == ExecutedActions
        outcomes == Executed
    IN /\ \A i \in 1..Len(batches) : Len(batches[i].actions) \in 1..BatchSize
       /\ Len(batches) <= max_iterations
       /\ IsPrefix(batched, Enqueued)
       /\ IsPrefix(actions, batched)
       /\ pc \in {"collect", "raised"} \/ Len(actions) = Len(batched)
       /\ Len(outcomes) = Len(actions) - RaisedInExecute
       /\ \A i \in 1..Len(outcomes) : outcomes[i] = execute_action(actions[i]).result
       /\ Len(outcomes) <= BatchSize * max_iterations
       /\ pc = "done" => bundle.collection_results = outcomes

\* A run has returned four results from two batches, one of them a failure.
C23_Witness ==
    /\ pc = "done"
    /\ Len(Batches) = 2
    /\ Len(bundle.collection_results) = 4
    /\ \E i \in 1..4 : ~bundle.collection_results[i].success
    /\ \E i \in 1..4 : bundle.collection_results[i].success

(***************************************************************************)
(* The decision to stop and the adaptation of the strategy.                *)
(***************************************************************************)
\* The collection loop has been left.
LoopLeft == pc \in {"process", "analyze", "report", "evaluate", "done"}

\* The method invoked in this step, if one is.
NewCall == IF Len(calls') > Len(calls) THEN calls'[Len(calls')].op ELSE None

LoopMethods == {"collect_intelligence", "execute_action",
                "should_continue_investigation", "adapt_strategy"}

\* What a step does once should_continue_investigation has returned.
DecisionStep ==
    /\ pc = "decided" /\ decision.kind = "object" /\ decision.continue = "false" =>
          /\ pc' = "process"
          /\ NewCall = None
          /\ UNCHANGED <<actions_queue, all_results, iteration>>
    /\ LoopLeft =>
          /\ LoopLeft'
          /\ NewCall \notin LoopMethods
          /\ UNCHANGED <<actions_queue, all_results, iteration>>
    /\ NewCall = "adapt_strategy" => pc = "adapt"
    /\ pc' = "adapt" /\ pc # "adapt" =>
          /\ pc = "decided"
          /\ decision.kind = "object"
          /\ decision.continue # "false"
          /\ decision.recommendation = "pivot"
          /\ actions_queue.items = <<>>

\* adapt_strategy is invoked right after should_continue_investigation, and
\* when it returned no action the next method invoked is process_raw_data.
AdaptCalls ==
    \A i \in 1..Len(calls) :
        calls[i].op = "adapt_strategy" =>
            /\ i > 1 /\ calls[i - 1].op = "should_continue_investigation"
            /\ calls[i].actions = <<>> /\ i < Len(calls) =>
                  calls[i + 1].op = "process_raw_data"
            /\ calls[i].actions = <<>> /\ i = Len(calls) =>
                  /\ actions_queue.items = <<>>
                  /\ pc \in {"increment", "loop", "process"}

\* C24: when the decision has continue = false, the loop is left in that
\* step; once the loop is left no action is executed, adapt_strategy is not
\* invoked and the queue is not touched.  adapt_strategy is invoked only
\* after a decision that does not stop, with an empty queue and the
\* recommendation pivot; when it returns no action, the loop ends.
C24_StopAndAdapt == []AdaptCalls /\ [][DecisionStep]_vars

\* A run has returned after a decision to stop, with actions left on the
\* queue and passes to spare.
C24_Witness ==
    /\ pc = "done"
    /\ actions_queue.items # <<>>
    /\ iteration + 1 < max_iterations
    /\ Invocations("should_continue_investigation") = iteration + 1

(***************************************************************************)
(* Termination of investigate.                                             *)
(***************************************************************************)
Terminated == pc \in {"done", "raised"}

PassesBounded == Len(Batches) <= max_iterations

\* C25: the loop makes at most max_iterations passes, also when
\* adapt_strategy refills the queue in every pass, and, every await
\* returning or raising, the run eventually returns its bundle or raises.
C25_Terminates == []PassesBounded /\ <>Terminated

\* The loop has made max_iterations passes, two or more, each ending with a
\* refill of the queue, and has been left with the queue not empty.
C25_Witness ==
    /\ LoopLeft
    /\ max_iterations >= 2
    /\ Len(Batches) = max_iterations
    /\ Invocations("adapt_strategy") >= 2
    /\ actions_queue.items # <<>>

(***************************************************************************)
(* The iteration count of the bundle.                                      *)
(***************************************************************************)
\* C30: metadata.iterations of the bundle returned is the number of batches
\* collect_intelligence was invoked with during the run.
C30_IterationsCountBatches ==
    pc = "done" => bundle.metadata.iterations = Len(Batches)

(***************************************************************************)
(* Failed executions, alert ids and workflow ids.                          *)
(***************************************************************************)
\* C27: an execute_workflow call on a known workflow that returned an error
\* map added nothing to the workflow's results and created no alert.
C27_FailureHasNoPartialEffect ==
    lastReturn.known /\ lastReturn.ret.kind = "error" =>
        /\ lastReturn.results_appended = 0
        /\ lastReturn.alerts_created = 0

\* C28: no two alerts of the list carry the same id, and once
\* acknowledge_alert has returned true for an id, every alert carrying that
\* id is acknowledged.
C28_AlertIdsUnique ==
    /\ \A i, j \in 1..Len(alerts) : alerts[i].id = alerts[j].id => i = j
    /\ lastAck.ret =>
          \A i \in 1..Len(alerts) :
              alerts[i].id = lastAck.id => alerts[i].status = "acknowledged"

\* The workflow dict the registry holds under an id.
Registered_Workflow(reg, objs, id) == objs[reg[id]]

CreateAddsOneEntry ==
    IsCreateStep =>
        /\ Cardinality(DOMAIN workflows') = Cardinality(DOMAIN workflows) + 1
        /\ \A id \in DOMAIN workflows :
              /\ id \in DOMAIN workflows'
              /\ Registered_Workflow(workflows', wfobjs', id)
                    = Registered_Workflow(workflows, wfobjs, id)

\* C29: a create_workflow call adds one entry to the registry and leaves
\* every workflow the registry held as it was.
C29_CreateAddsOneEntry == [][CreateAddsOneEntry]_vars

(***************************************************************************)
(* Investigations interleaved on the one agent.                            *)
(***************************************************************************)
\* C26: every bundle returned carries the id generated when that same
\* investigation was planned, every audit-log entry an investigation wrote
\* carries that investigation's id, and the prompts an investigation built
\* from self.objective show its own objective.
C26_RunsIsolated ==
    \A r \in 1..Len(runs) :
        /\ runs[r].pc = "done" => runs[r].bundle_id = runs[r].own_id
        /\ \A i \in runs[r].wrote : audit[i].investigation_id = runs[r].own_id
        /\ runs[r].prompted \subseteq {ObjectiveOf(r)}

====
